---------------------------- MODULE Spec2Model ----------------------------
(***************************************************************************)
(* A model of the adaptive flashcard study engine: the Flashcard record    *)
(* with its SM-2 style review rule (flashcard.py) and the session          *)
(* orchestration of LearnSimulator (learn_simulator.py).                   *)
(*                                                                         *)
(* Number representation.  The program computes ease, quality and scores   *)
(* in floating point; the model computes the same expressions exactly, in  *)
(* fixed point:                                                            *)
(*   - a quality q is held as  QualityScale * q  (thirds of a point), so   *)
(*     that the partial-credit qualities 1 + 4p are integers;              *)
(*   - a partial score p is held as ScoreScale * p (twelfths);             *)
(*   - a time modifier m is held as TenthScale * m (tenths);               *)
(*   - an ease e is held as EaseScale * e (1/1800ths), the common          *)
(*     denominator of every ease change the review rule can produce.       *)
(* Rounding errors of binary floating point are not modelled.              *)
(***************************************************************************)
EXTENDS Integers, Sequences, FiniteSets, TLC

VARIABLES
    cards,      \* self.cards: the deck, a sequence of Flashcard records
    clock,      \* datetime.now(), counted in reviews
    call,       \* the most recent Flashcard method call: its name, arguments,
                \* the receiver's fields before the call, and what it returned
    pc,         \* where the program stands in study_session
    session,    \* the locals of study_session
    study,      \* the locals of _study_card_set_with_tracking
    prompt,     \* the locals of the practice method waiting for a key
    session_stats,                  \* self.session_stats
    previous_stage_distribution,    \* self.previous_stage_distribution
    file        \* the rows of the deck file self.filepath

sessionVars ==
    <<pc, session, study, prompt, session_stats, previous_stage_distribution, file>>

vars == <<cards, clock, call, pc, session, study, prompt, session_stats,
          previous_stage_distribution, file>>

-----------------------------------------------------------------------------
(* Fixed-point scales *)

QualityScale == 3
ScoreScale == 12
TenthScale == 10
EaseScale == 1800

(* Python's None, and an optional value that is present *)
None == <<>>
Some(x) == <<x>>
ValueOf(opt) == opt[1]

Max(x, y) == IF x >= y THEN x ELSE y
Min(x, y) == IF x <= y THEN x ELSE y

(* int(x / d) as Python computes it: truncation toward zero *)
TruncDiv(x, d) == IF x >= 0 THEN x \div d ELSE -((-x) \div d)

-----------------------------------------------------------------------------
(* Flashcard *)

Letters == <<"a", "b", "c", "d">>
LetterSet == {Letters[i] : i \in 1..Len(Letters)}
LetterIndex(l) == CHOOSE i \in 1..Len(Letters) : Letters[i] = l

(* sorted(list(s)) for a set s of option letters *)
RECURSIVE sorted(_)
sorted(s) ==
    IF s = {} THEN <<>>
    ELSE LET first == CHOOSE l \in s : \A m \in s : LetterIndex(l) <= LetterIndex(m)
         IN  <<first>> \o sorted(s \ {first})

(* set(list) *)
ToSet(list) == {list[i] : i \in 1..Len(list)}

(* Flashcard.__init__: the fields of a card as load_deck constructs it.
   options holds the letters whose option text is neither None nor blank;
   correct_answers is the list split from the correct_answer column. *)
Flashcard(card_type, options, correct_answers, ease, repetitions) ==
    [card_type       |-> card_type,
     options         |-> options,
     correct_answers |-> correct_answers,
     ease            |-> ease,
     interval        |-> 1,
     repetitions     |-> repetitions,
     last_review     |-> None]

(* A variant of _calculate_time_modifier comparing with < instead of <= *)
calculate_time_modifier_strict(response_time) ==
    IF response_time < 3 THEN 12
    ELSE IF response_time < 6 THEN 11
    ELSE IF response_time < 12 THEN 10
    ELSE IF response_time < 20 THEN 9
    ELSE 8

(* Flashcard._calculate_time_modifier, response_time in seconds *)
calculate_time_modifier(response_time) ==
    IF response_time <= 3 THEN 12
    ELSE IF response_time <= 6 THEN 11
    ELSE IF response_time <= 12 THEN 10
    ELSE IF response_time <= 20 THEN 9
    ELSE 8

(* review, line 62: the modifier is 1.0 when no response time is given *)
time_modifier(response_time) ==
    IF response_time # None
    THEN calculate_time_modifier(ValueOf(response_time))
    ELSE TenthScale

(* A variant of the ease change without the factor 5 (plain SM-2) *)
ease_change_plain(quality, response_time) ==
    LET D == 5 * QualityScale - quality
    IN  ((90 - 24 * D - 2 * D * D) * time_modifier(response_time)) \div 5

(* review, lines 65-66: 5 * base_ease_change * time_modifier, in 1/1800ths.
   With d = 5 - quality = D/3:
     base_ease_change = 0.1 - d*(0.08 + d*0.02) = (90 - 24*D - 2*D*D) / 900 *)
ease_change(quality, response_time) ==
    LET D == 5 * QualityScale - quality
    IN  (90 - 24 * D - 2 * D * D) * time_modifier(response_time)

MinEase == (13 * EaseScale) \div 10

(* A variant that halves the repetitions after every review *)
review_repetitions_halve_always(card, quality) == card.repetitions \div 2

(* A variant of the failure rule that resets repetitions to 0 *)
review_repetitions_reset(card, quality) ==
    IF quality < 3 * QualityScale THEN 0 ELSE card.repetitions + 1

(* A variant of the interval rule that rounds the product up *)
review_interval_ceil(card, quality) ==
    IF quality < 3 * QualityScale THEN 1
    ELSE IF card.repetitions + 1 = 1 THEN 1
    ELSE IF card.repetitions + 1 = 2 THEN 6
    ELSE (card.interval * card.ease + EaseScale - 1) \div EaseScale

(* review, lines 47-59: repetitions and interval *)
review_repetitions(card, quality) ==
    IF quality < 3 * QualityScale
    THEN card.repetitions \div 2
    ELSE card.repetitions + 1

review_interval(card, quality) ==
    IF quality < 3 * QualityScale THEN 1
    ELSE IF card.repetitions + 1 = 1 THEN 1
    ELSE IF card.repetitions + 1 = 2 THEN 6
    ELSE TruncDiv(card.interval * card.ease, EaseScale)

(* A variant of the ease update that never lowers the ease *)
review_ease_never_lower(card, quality, response_time) ==
    Max(card.ease, card.ease + ease_change(quality, response_time))

(* A variant of the ease update without the floor *)
review_ease_unclamped(card, quality, response_time) ==
    card.ease + ease_change(quality, response_time)

(* review, line 67 *)
review_ease(card, quality, response_time) ==
    Max(MinEase, card.ease + ease_change(quality, response_time))

(* Flashcard.review: the card after the call; now is datetime.now() *)
review(card, quality, response_time, now) ==
    [card EXCEPT !.repetitions = review_repetitions(card, quality),
                 !.interval    = review_interval(card, quality),
                 !.ease        = review_ease(card, quality, response_time),
                 !.last_review = Some(now)]

(* Flashcard.get_all_options: the letters with a non-blank option text
   (None for a vocabulary card, which has no options) *)
get_all_options(card) == card.options

(* Flashcard.get_available_option_letters *)
get_available_option_letters(card) ==
    IF card.card_type # "mcq" THEN <<>> ELSE sorted(get_all_options(card))

(* Flashcard.is_true_false_question *)
is_true_false_question(card) ==
    /\ card.card_type = "mcq"
    /\ Cardinality(get_all_options(card)) = 2
    /\ "a" \in get_all_options(card)
    /\ "b" \in get_all_options(card)

(* Flashcard.has_multiple_correct_answers *)
has_multiple_correct_answers(card) ==
    card.card_type = "mcq" /\ Len(card.correct_answers) > 1

(* Flashcard.get_correct_answers_set *)
get_correct_answers_set(card) ==
    IF card.card_type = "mcq" THEN ToSet(card.correct_answers) ELSE {}

(* A variant of question_kind that takes any two options for True/False *)
question_kind_any_two(card) ==
    IF card.card_type # "mcq" THEN "None"
    ELSE IF /\ Cardinality(get_all_options(card)) = 2
            /\ Len(card.correct_answers) = 1
         THEN "tf"
    ELSE IF Len(card.correct_answers) > 1 THEN "mcq_multi"
    ELSE "mcq_single"

(* Flashcard.question_kind; Python's None is written "None" here *)
question_kind(card) ==
    IF card.card_type # "mcq" THEN "None"
    ELSE IF /\ Cardinality(get_all_options(card)) = 2
            /\ "a" \in get_all_options(card)
            /\ "b" \in get_all_options(card)
            /\ Len(card.correct_answers) = 1
         THEN "tf"
    ELSE IF Len(card.correct_answers) > 1 THEN "mcq_multi"
    ELSE "mcq_single"

(* A variant of the conversion that reads only the first selected answer *)
selected_set_first(selected_answers) == {selected_answers[1]}

(* calculate_partial_score, line 215: set(selected_answers); every caller
   passes a list *)
selected_set(selected_answers) == ToSet(selected_answers)

(* A variant of the score without the penalty for wrong selections *)
final_score_no_penalty(total_correct, correctly_selected, incorrectly_selected) ==
    (ScoreScale * correctly_selected) \div total_correct

(* calculate_partial_score, lines 227-231: final_score in twelfths.
   total_correct is the size of a set of option letters, so it divides 12. *)
final_score(total_correct, correctly_selected, incorrectly_selected) ==
    Max(0, (ScoreScale * correctly_selected) \div total_correct
           - 3 * incorrectly_selected)

(* calculate_partial_score, line 234 *)
is_perfect(total_correct, correctly_selected, incorrectly_selected) ==
    correctly_selected = total_correct /\ incorrectly_selected = 0

EmptyDict == [k \in {} |-> {}]

(* Flashcard.calculate_partial_score: (score, is_perfect, feedback_info) *)
calculate_partial_score(card, selected_answers) ==
    IF card.card_type # "mcq"
    THEN [score |-> ScoreScale, is_perfect |-> TRUE, feedback_info |-> EmptyDict]
    ELSE
    LET correct_set == get_correct_answers_set(card)
        selected == selected_set(selected_answers)
        total_correct == Cardinality(correct_set)
        correctly_selected == Cardinality(correct_set \cap selected)
        incorrectly_selected == Cardinality(selected \ correct_set)
    IN  IF total_correct = 0
        THEN [score |-> 0, is_perfect |-> FALSE, feedback_info |-> EmptyDict]
        ELSE [score      |-> final_score(total_correct, correctly_selected,
                                         incorrectly_selected),
              is_perfect |-> is_perfect(total_correct, correctly_selected,
                                        incorrectly_selected),
              feedback_info |->
                [total_correct        |-> total_correct,
                 correctly_selected   |-> correctly_selected,
                 incorrectly_selected |-> incorrectly_selected,
                 correct_answers      |-> sorted(correct_set),
                 selected_answers     |-> sorted(selected),
                 missed_answers       |-> sorted(correct_set \ selected),
                 wrong_answers        |-> sorted(selected \ correct_set)]]

-----------------------------------------------------------------------------
(* Bounded inputs *)

(* All lists over the set s with at most n entries *)
ListsUpTo(s, n) == UNION {[1..k -> s] : k \in 0..n}

NoCall == [op |-> "none"]

(* a Flashcard object on its own: no simulator, no session, no file *)
NoSession ==
    /\ pc = "none"
    /\ session = None
    /\ study = None
    /\ prompt = None
    /\ session_stats = <<>>
    /\ previous_stage_distribution = None
    /\ file = None

-----------------------------------------------------------------------------
(* SpecReview: one card, reviewed repeatedly through Flashcard.review with
   any quality (0..5 and the partial-credit qualities 1 + 4p) and a fast, a
   slow or no response time.
   SpecTime: one card, reviewed once with any response time or none. *)

MaxReviews == 3
MaxTimedReviews == 1
MaxInitReps == 2
MaxTime == 21

(* ease values a loaded card may carry, in tenths: below the floor, at the
   floor, around each stage boundary, and the default 2.5 *)
InitEaseTenths == {10, 13, 19, 20, 25, 30, 40, 50}
InitEases == {(t * EaseScale) \div 10 : t \in InitEaseTenths}

(* the scores calculate_partial_score can return for a card with up to four
   options, in twelfths *)
PartialScores ==
    UNION {{final_score(tc, cs, ws) : cs \in 0..tc, ws \in 0..(Len(Letters) - tc)} :
              tc \in 1..Len(Letters)}

(* 0..5 and 1 + 4p for every score p *)
Qualities ==
    {q * QualityScale : q \in 0..5}
        \cup {QualityScale + (4 * QualityScale * p) \div ScoreScale : p \in PartialScores}

ResponseTimes == {None} \cup {Some(t) : t \in 0..MaxTime}
SampleTimes == {None, Some(2), Some(25)}

InitReview ==
    /\ cards \in {<<Flashcard("vocabulary", {}, <<>>, e, r)>> :
                    e \in InitEases, r \in 0..MaxInitReps}
    /\ clock = 1
    /\ call = NoCall
    /\ NoSession

(* card.review(quality, response_time=response_time), card being cards[i] *)
card_review(i, quality, response_time) ==
    /\ cards' = [cards EXCEPT ![i] = review(cards[i], quality, response_time, clock)]
    /\ clock' = clock + 1
    /\ call' = [op |-> "review", card |-> i, quality |-> quality,
                response_time |-> response_time, old |-> cards[i],
                time_modifier |-> time_modifier(response_time)]

Review(i, quality, response_time) ==
    /\ card_review(i, quality, response_time)
    /\ UNCHANGED sessionVars

NextReview ==
    /\ clock <= MaxReviews
    /\ \E i \in DOMAIN cards, quality \in Qualities, response_time \in SampleTimes :
          Review(i, quality, response_time)

SpecReview == InitReview /\ [][NextReview]_vars

NextTime ==
    /\ clock <= MaxTimedReviews
    /\ \E i \in DOMAIN cards, quality \in Qualities, response_time \in ResponseTimes :
          Review(i, quality, response_time)

SpecTime == InitReview /\ [][NextTime]_vars

-----------------------------------------------------------------------------
(* SpecCard: the pure methods of one card, calculate_partial_score and
   question_kind, applied to every card content and selection in bounds. *)

MaxCorrectLen == 4
MaxSelectedLen == 2

(* option columns filled: True/False, two options that are not a and b,
   three options, four options; the correct_answer column lists letters of
   filled options, possibly none and possibly one twice *)
OptionSets == {{"a", "b"}, {"a", "c"}, {"a", "b", "c"}, {"a", "b", "c", "d"}}

DefaultEase == (25 * EaseScale) \div 10

CardContents ==
    UNION {{Flashcard("mcq", o, c, DefaultEase, 0) : c \in ListsUpTo(o, MaxCorrectLen)} :
              o \in OptionSets}
    \cup {Flashcard("vocabulary", {}, <<>>, DefaultEase, 0)}

InitCard ==
    /\ cards \in {<<c>> : c \in CardContents}
    /\ clock = 1
    /\ call = NoCall
    /\ NoSession

(* card.calculate_partial_score(selected_letters); the selection is a
   non-empty list over the card's available letters *)
CalculatePartialScore(i, selected_answers) ==
    /\ call' = [op |-> "calculate_partial_score", card |-> i,
                selected_answers |-> selected_answers,
                ret |-> calculate_partial_score(cards[i], selected_answers)]
    /\ UNCHANGED <<cards, clock>>
    /\ UNCHANGED sessionVars

(* card.question_kind *)
QuestionKind(i) ==
    /\ call' = [op |-> "question_kind", card |-> i, ret |-> question_kind(cards[i])]
    /\ UNCHANGED <<cards, clock>>
    /\ UNCHANGED sessionVars

NextCard ==
    \E i \in DOMAIN cards :
        \/ \E selected_answers \in
                ListsUpTo(ToSet(get_available_option_letters(cards[i])), MaxSelectedLen)
                    \ {<<>>} :
              CalculatePartialScore(i, selected_answers)
        \/ QuestionKind(i)

SpecCard == InitCard /\ [][NextCard]_vars

-----------------------------------------------------------------------------
(* LearnSimulator: pure parts *)

(* A variant of the stage rule whose boundaries fall in the lower stage *)
stage_inclusive(card) ==
    IF card.repetitions = 0 \/ card.ease <= 2 * EaseScale THEN 1
    ELSE IF card.ease <= 3 * EaseScale THEN 2
    ELSE IF card.ease <= 4 * EaseScale THEN 3
    ELSE IF card.ease <= 5 * EaseScale THEN 4
    ELSE 5

(* _study_card_set_with_tracking, lines 449-485: the branch taken for a card,
   which is the value current_stage receives; the same chain of conditions
   is in _calculate_set_statistics, lines 120-129 *)
stage(card) ==
    IF card.repetitions = 0 \/ card.ease < 2 * EaseScale THEN 1
    ELSE IF card.ease < 3 * EaseScale THEN 2
    ELSE IF card.ease < 4 * EaseScale THEN 3
    ELSE IF card.ease < 5 * EaseScale THEN 4
    ELSE 5

(* A variant that shows every card in review mode *)
handler_review_only(card, current_stage) == "_show_card_review_mode"

(* lines 449-485: the practice method called in each branch *)
handler(card, current_stage) ==
    IF current_stage = 1 THEN "_show_card_review_mode"
    ELSE IF card.card_type = "mcq" THEN "_mcq_practice_mode"
    ELSE IF current_stage = 2 THEN "_quiz_definition_to_term"
    ELSE IF current_stage = 3 THEN "_quiz_term_to_definition"
    ELSE IF current_stage = 4 THEN "_type_term_to_definition"
    ELSE "_type_definition_to_term"

(* A variant that allows hints at every stage *)
allow_hints_always(current_stage) == TRUE

(* lines 458, 466, 474, 482: allow_hints of _mcq_practice_mode *)
allow_hints(current_stage) == current_stage \in {2, 3}

(* what a practice method returns as its first component *)
True == <<"True">>
False == <<"False">>
hint_correct == <<"hint_correct">>
partial(score) == <<"partial", score>>

(* A variant in which a hint leaves the outcome of a correct answer as it is *)
correct_outcome_ignoring_hint(used_hint) == True

(* lines 661-666, 1070-1075 and 1127-1132: what a practice method returns
   for a correct answer *)
correct_outcome(used_hint) == IF used_hint THEN hint_correct ELSE True

(* A variant of the conversion that gives a hinted answer quality 4 *)
q_hint_four(correct_answer) ==
    IF correct_answer = hint_correct THEN 4 * QualityScale
    ELSE IF Len(correct_answer) = 2
         THEN QualityScale + (4 * QualityScale * correct_answer[2]) \div ScoreScale
    ELSE IF correct_answer = True THEN 5 * QualityScale
    ELSE QualityScale

(* A variant that gives quality 3 to every answer *)
q_always_three(correct_answer) == 3 * QualityScale

(* lines 501-524: q, in thirds; a partial score p in twelfths gives 1 + 4p *)
q(correct_answer) ==
    IF correct_answer = hint_correct THEN 3 * QualityScale
    ELSE IF Len(correct_answer) = 2
         THEN QualityScale + (4 * QualityScale * correct_answer[2]) \div ScoreScale
    ELSE IF correct_answer = True THEN 5 * QualityScale
    ELSE QualityScale

(* A variant that counts a partial score as correct only above 0.5 *)
was_correct_above_half(correct_answer) ==
    IF correct_answer = hint_correct THEN TRUE
    ELSE IF Len(correct_answer) = 2 THEN 2 * correct_answer[2] > ScoreScale
    ELSE correct_answer = True

(* lines 500-527: was_correct; partial_score >= 0.5 counts as correct *)
was_correct(correct_answer) ==
    IF correct_answer = hint_correct THEN TRUE
    ELSE IF Len(correct_answer) = 2 THEN 2 * correct_answer[2] >= ScoreScale
    ELSE correct_answer = True

(* A variant that leaves the list as it is *)
sorted_by_unsorted(list, key) == list

(* sorted(list, key=...): stable, key a function on the entries *)
RECURSIVE sorted_by(_, _)
sorted_by(list, key) ==
    IF list = <<>> THEN <<>>
    ELSE LET k == CHOOSE k \in DOMAIN list :
                    /\ \A j \in DOMAIN list : key[list[k]] <= key[list[j]]
                    /\ \A j \in 1..(k - 1) : key[list[j]] > key[list[k]]
             rest == [j \in 1..(Len(list) - 1) |->
                         IF j < k THEN list[j] ELSE list[j + 1]]
         IN <<list[k]>> \o sorted_by(rest, key)

(* A variant of the slice that stops one element early *)
TakeShort(list, n) == SubSeq(list, 1, Min(n - 1, Len(list)))

(* A variant of list[n:] that removes nothing *)
Drop_nothing(list, n) == list

(* list[:n] and list[n:] *)
Take(list, n) == SubSeq(list, 1, Min(n, Len(list)))
Drop(list, n) == SubSeq(list, Min(n, Len(list)) + 1, Len(list))

(* A variant of the comprehension without its condition *)
Filter_keep_all(list, s) == list

(* [x for x in list if x in s] *)
Filter(list, s) == SelectSeq(list, LAMBDA x : x \in s)

(* A variant that keeps every occurrence *)
unique_keep_all(list) == list

(* the list without repeated entries, first occurrences kept in order *)
RECURSIVE unique(_)
unique(list) ==
    IF list = <<>> THEN <<>>
    ELSE LET init == unique(SubSeq(list, 1, Len(list) - 1))
             last == list[Len(list)]
         IN IF last \in ToSet(init) THEN init ELSE Append(init, last)

(* the outcomes of random.shuffle(list)[:n], for a list without repeats *)
Shuffled(list, n) ==
    {s \in [1..Min(n, Len(list)) -> ToSet(list)] :
        \A i, j \in DOMAIN s : i # j => s[i] # s[j]}

(* study_session, line 419: len(recently_practiced) > len(self.cards) * 0.6 *)
exceeds_share(practiced, deck) ==
    10 * Cardinality(practiced) > 6 * Len(deck)

(* study_session, lines 420-422: the outcomes of shuffling
   list(recently_practiced) and keeping the first len // 2 entries *)
RandomHalf(practiced) ==
    {kept \in SUBSET practiced : Cardinality(kept) = Cardinality(practiced) \div 2}

(* the lists that start at some entry of list and wrap around *)
Rotations(list) ==
    IF list = <<>> THEN {<<>>}
    ELSE {[i \in DOMAIN list |-> list[((i + r - 1) % Len(list)) + 1]] :
             r \in 0..(Len(list) - 1)}

(* the set s as a list in deck order *)
RECURSIVE InDeckOrder(_)
InDeckOrder(s) ==
    IF s = {} THEN <<>>
    ELSE LET first == CHOOSE i \in s : \A j \in s : i <= j
         IN <<first>> \o InDeckOrder(s \ {first})

(* A variant of the shuffle whose result is not sliced *)
ShuffledRotations_unsliced(list, n) == Rotations(list)

(* the outcomes of random.shuffle considered here: the rotations *)
ShuffledRotations(list, n) == {Take(p, n) : p \in Rotations(list)}

(* A variant that keeps all of recently_practiced *)
RandomHalfKeepAll(practiced) == {practiced}

(* the halves kept of recently_practiced considered here: the first half
   of the rotations of the cards in deck order and in order of ease *)
RandomHalfRotations(practiced) ==
    {ToSet(Take(p, Cardinality(practiced) \div 2)) :
        p \in Rotations(InDeckOrder(practiced))
                 \cup Rotations(sorted_by(InDeckOrder(practiced),
                                          [i \in DOMAIN cards |-> cards[i].ease]))}

(* _calculate_set_statistics, lines 118-129 *)
stage_counts(deck) ==
    [s \in 1..5 |-> Cardinality({i \in DOMAIN deck : stage(deck[i]) = s})]

(* A variant of _calculate_set_statistics whose stage distribution counts
   the cards of the set only *)
calculate_set_statistics_over_set(deck, set_cards, correct_count, incorrect_count, hint_count) ==
    [total_cards     |-> Len(set_cards),
     correct_count   |-> correct_count,
     incorrect_count |-> incorrect_count,
     hint_count      |-> hint_count,
     stage_counts    |-> stage_counts([k \in DOMAIN set_cards |-> deck[set_cards[k]]]),
     total_all_cards |-> Len(deck)]

(* _calculate_set_statistics; the percentages are quotients of the counts
   kept here *)
calculate_set_statistics(deck, set_cards, correct_count, incorrect_count, hint_count) ==
    [total_cards     |-> Len(set_cards),
     correct_count   |-> correct_count,
     incorrect_count |-> incorrect_count,
     hint_count      |-> hint_count,
     stage_counts    |-> stage_counts(deck),
     total_all_cards |-> Len(deck)]

(* round(ease, 3), in thousandths *)
Round3(ease) == (ease * 1000 + EaseScale \div 2) \div EaseScale

(* Flashcard.to_dict: the scheduling columns of a row *)
to_dict(card) ==
    [ease        |-> Round3(card.ease),
     repetitions |-> card.repetitions,
     last_review |-> card.last_review]

(* save_deck, lines 96-99: DictWriter.writerow raises ValueError for the
   'explanation' key that to_dict adds to every MCQ row *)
save_deck_raises(deck) == deck # <<>> /\ deck[1].card_type = "mcq"

(* the rows in the file after save_deck: none when the first writerow raised *)
saved_rows(deck) ==
    IF save_deck_raises(deck) THEN <<>>
    ELSE [i \in DOMAIN deck |-> to_dict(deck[i])]

-----------------------------------------------------------------------------
(* Spec: a study session of LearnSimulator on a loaded deck *)

MaxCards == 2
MaxSessionReviews == 4

(* (ease in tenths, repetitions) of the rows of a deck file: a new card, and
   studied cards below 2.0, at each stage boundary and above 5.0 *)
LoadedStates == {<<25, 0>>, <<19, 3>>, <<20, 3>>, <<30, 1>>, <<40, 2>>, <<50, 3>>}
LoadedMcqStates == {<<25, 0>>, <<20, 3>>, <<40, 2>>}

(* MCQ rows: True/False, one correct answer of four, two correct of four *)
McqContents ==
    {<<{"a", "b"}, <<"a">>>>,
     <<{"a", "b", "c", "d"}, <<"b">>>>,
     <<{"a", "b", "c", "d"}, <<"a", "c">>>>}

VocabularyCards ==
    {Flashcard("vocabulary", {}, <<>>, (s[1] * EaseScale) \div 10, s[2]) :
        s \in LoadedStates}

McqCards ==
    {Flashcard("mcq", c[1][1], c[1][2], (c[2][1] * EaseScale) \div 10, c[2][2]) :
        c \in McqContents \X LoadedMcqStates}

(* the rows that decks of several cards are made of: vocabulary cards that
   are new, in stage 2 and in stage 4; a new MCQ with one correct answer
   and an MCQ in stage 2 with two *)
SeveralVocabularyCards ==
    {c \in VocabularyCards : c.repetitions \in {0, 2} \/ c.ease = 2 * EaseScale}

SeveralMcqCards ==
    {c \in McqCards : /\ Cardinality(c.options) = 4
                      /\ \/ Len(c.correct_answers) = 1 /\ c.repetitions = 0
                         \/ Len(c.correct_answers) = 2 /\ c.ease = 2 * EaseScale}

(* load_deck: the file has the MCQ columns or it has not, so a deck is all
   of one card type; an empty file gives an empty deck *)
Decks ==
    UNION {[1..n -> IF n <= 1 THEN VocabularyCards ELSE SeveralVocabularyCards]
              \cup [1..n -> IF n <= 1 THEN McqCards ELSE SeveralMcqCards] :
              n \in 0..MaxCards}

(* seconds between start_time and the answer: fast and slow *)
SessionTimes == {2, 25}

(* difflib ratio of a typed answer, in tenths *)
Similarities == {3, 4, 7, 8}

NoPrompt == None

Init ==
    /\ cards \in Decks
    /\ clock = 1
    /\ call = NoCall
    /\ pc = "start"
    /\ session = None
    /\ study = None
    /\ prompt = NoPrompt
    /\ session_stats = <<>>
    /\ previous_stage_distribution = None
    /\ file = [rows |-> [i \in DOMAIN cards |-> to_dict(cards[i])], saves |-> 0]

(* A variant of save_deck that writes the file twice *)
save_deck_twice ==
    file' = [rows |-> saved_rows(cards), saves |-> file.saves + 2]

(* self.save_deck(self.filepath or "deck.csv"), lines 82-99: rewrite the
   file from the cards in memory *)
save_deck ==
    file' = [rows |-> saved_rows(cards), saves |-> file.saves + 1]

(* A variant of the Phase 1 test that looks only at repetitions *)
any_stage_one_new_only(deck) ==
    \E i \in DOMAIN deck : deck[i].repetitions = 0

(* study_session, line 296: any(card.repetitions == 0 or card.ease < 2.0) *)
any_stage_one(deck) ==
    \E i \in DOMAIN deck : deck[i].repetitions = 0 \/ deck[i].ease < 2 * EaseScale

(* study_session, lines 286-303 and 358-363: sort, choose the phase *)
StartSession ==
    /\ pc = "start"
    /\ LET all_cards ==
               sorted_by([i \in DOMAIN cards |-> i],
                         [i \in DOMAIN cards |-> cards[i].repetitions])
           locals == [phase |-> 0, all_cards |-> all_cards,
                      current_set_start |-> 0, carry_forward_cards |-> <<>>,
                      new_cards |-> <<>>, current_set |-> <<>>,
                      recently_practiced |-> {}, summary_shown |-> FALSE]
       IN IF all_cards = <<>>
          THEN /\ pc' = "returned"
               /\ session' = locals
          ELSE IF any_stage_one(cards)
          THEN /\ pc' = "phase1"
               /\ session' = [locals EXCEPT !.phase = 1]
          ELSE /\ pc' = "phase2"
               /\ session' = [locals EXCEPT !.phase = 2]
    /\ UNCHANGED <<cards, clock, call, study, prompt, session_stats,
                   previous_stage_distribution, file>>

(* _study_card_set_with_tracking, lines 436-441: the locals on entry *)
StudyLocals ==
    [i |-> 1, set_completed_cards |-> <<>>, incorrect_cards |-> <<>>,
     correct_count |-> 0, incorrect_count |-> 0, hint_count |-> 0,
     current_stage |-> None, result |-> None]

(* study_session, lines 304-332: one turn of the Phase 1 loop up to the
   call of _study_card_set_with_tracking *)
Phase1BuildSet ==
    /\ pc = "phase1"
    /\ LET carried == Take(session.carry_forward_cards, 7)
           fresh == Take(Drop(session.all_cards, session.current_set_start),
                         7 - Len(carried))
           new_cards == carried \o fresh
       IN IF ~(session.current_set_start < Len(session.all_cards)
                 \/ session.carry_forward_cards # <<>>) \/ new_cards = <<>>
          THEN /\ pc' = "returned"
               /\ UNCHANGED <<session, study>>
          ELSE /\ session' = [session EXCEPT
                     !.carry_forward_cards = Drop(session.carry_forward_cards, 7),
                     !.current_set_start = session.current_set_start + Len(fresh),
                     !.new_cards = new_cards,
                     !.current_set = new_cards \o new_cards]
               /\ study' = StudyLocals
               /\ pc' = "dispatch"
    /\ UNCHANGED <<cards, clock, call, prompt, session_stats,
                   previous_stage_distribution, file>>

(* study_session, lines 430-432: save_deck, then _display_session_summary,
   which prints only when a set was completed; an exception of save_deck
   ends the program *)
FinishSession ==
    /\ save_deck
    /\ IF save_deck_raises(cards)
       THEN /\ pc' = "crashed"
            /\ UNCHANGED session
       ELSE /\ pc' = "returned"
            /\ session' = [session EXCEPT !.summary_shown = session_stats # <<>>]

(* study_session, lines 365-408: one turn of the Phase 2 loop up to the call
   of _study_card_set_with_tracking; rotations tells whether the outcomes of
   random.shuffle are all orders or the rotations only *)
Phase2BuildSetWith(rotations) ==
    /\ pc = "phase2"
    /\ LET shuffle(list, n) == IF rotations THEN ShuffledRotations(list, n)
                               ELSE Shuffled(list, n)
           deck == [i \in DOMAIN cards |-> i]
           hardest_cards ==
               Take(sorted_by(deck, [i \in DOMAIN cards |-> cards[i].ease]), 8)
           remaining_candidates == Filter(deck, DOMAIN cards \ ToSet(hardest_cards))
           unpracticed ==
               Filter(remaining_candidates, DOMAIN cards \ session.recently_practiced)
           practiced == Filter(remaining_candidates, session.recently_practiced)
           selections ==
               IF Len(unpracticed) >= 7 THEN shuffle(unpracticed, 7)
               ELSE IF unpracticed # <<>>
               THEN {unpracticed \o p : p \in shuffle(practiced, 7 - Len(unpracticed))}
               ELSE shuffle(remaining_candidates, 7)
           cleared == remaining_candidates # <<>> /\ unpracticed = <<>>
       IN \E selected \in IF remaining_candidates = <<>> THEN {<<>>} ELSE selections :
            LET current_set == IF remaining_candidates = <<>> THEN hardest_cards
                               ELSE unique(selected \o hardest_cards)
            IN IF current_set = <<>>
               THEN /\ FinishSession
                    /\ UNCHANGED study
               ELSE /\ UNCHANGED file
                    /\ session' = [session EXCEPT
                          !.current_set = current_set,
                          !.recently_practiced =
                              IF cleared THEN {} ELSE session.recently_practiced]
                    /\ study' = StudyLocals
                    /\ pc' = "dispatch"
    /\ UNCHANGED <<cards, clock, call, prompt, session_stats,
                   previous_stage_distribution>>

Phase2BuildSet == Phase2BuildSetWith(FALSE)

(* the card of the current iteration of the for loop, line 443 *)
current_card == session.current_set[study.i]

(* lines 443-485: the next card of the set is classified and its practice
   method starts: it draws correct_index (quizzes), sets available_options
   (MCQ) and waits for a key *)
DispatchWithin(max_reviews) ==
    /\ pc = "dispatch"
    /\ clock <= max_reviews
    /\ LET card == cards[current_card]
           current_stage == stage(card)
           method == handler(card, current_stage)
           quiz == method \in {"_quiz_definition_to_term", "_quiz_term_to_definition"}
       IN /\ study' = [study EXCEPT !.current_stage = Some(current_stage),
                                    !.result = None]
          /\ \E correct_index \in IF quiz THEN 1..5 ELSE {0} :
                prompt' = [handler |-> method,
                           allow_hints |-> IF method = "_mcq_practice_mode"
                                           THEN allow_hints(current_stage) ELSE quiz,
                           used_hint |-> FALSE,
                           correct_index |-> correct_index,
                           options |-> IF quiz THEN [k \in 1..5 |-> k = correct_index]
                                       ELSE <<>>,
                           available_options |->
                               [k \in 1..Len(get_available_option_letters(card)) |-> k]]
    /\ pc' = "prompt"
    /\ UNCHANGED <<cards, clock, call, session, session_stats,
                   previous_stage_distribution, file>>

Dispatch == DispatchWithin(MaxSessionReviews)

(* the practice method returns ret to _study_card_set_with_tracking *)
Return(ret) ==
    /\ study' = [study EXCEPT !.result = ret]
    /\ prompt' = NoPrompt
    /\ pc' = "result"

(* the practice method prints a message and waits for the next key *)
Reprompt == UNCHANGED vars

(* ESC in a practice method: save_deck, then return None (review mode and
   typed answers) or (None, None) (quizzes and MCQ) *)
Escape ==
    /\ pc = "prompt"
    /\ save_deck
    /\ IF save_deck_raises(cards)
       THEN /\ pc' = "crashed"
            /\ prompt' = NoPrompt
            /\ UNCHANGED study
       ELSE Return(IF prompt.handler \in {"_show_card_review_mode",
                                          "_type_term_to_definition",
                                          "_type_definition_to_term"}
                   THEN None ELSE <<None, None>>)
    /\ UNCHANGED <<cards, clock, call, session, session_stats,
                   previous_stage_distribution>>

(* _show_card_review_mode: SPACE *)
ReviewModeSpace(response_time) ==
    /\ pc = "prompt"
    /\ prompt.handler = "_show_card_review_mode"
    /\ Return(<<True, Some(response_time)>>)
    /\ UNCHANGED <<cards, clock, call, session, session_stats,
                   previous_stage_distribution, file>>

(* _show_card_review_mode: 'r' shows the card again, any other key is
   invalid *)
ReviewModeOtherKey ==
    /\ pc = "prompt"
    /\ prompt.handler = "_show_card_review_mode"
    /\ Reprompt

(* _quiz_term_to_definition, _quiz_definition_to_term: a digit key *)
QuizChoice(choice, response_time) ==
    /\ pc = "prompt"
    /\ prompt.handler \in {"_quiz_definition_to_term", "_quiz_term_to_definition"}
    /\ IF choice <= Len(prompt.options)
       THEN /\ Return(<<IF choice = prompt.correct_index
                           THEN correct_outcome(prompt.used_hint)
                        ELSE False,
                        Some(response_time)>>)
            /\ UNCHANGED <<cards, clock, call, session, session_stats,
                           previous_stage_distribution, file>>
       ELSE Reprompt

(* the list without the entries at the positions in removed *)
Without(list, removed) ==
    LET kept(k) == Cardinality({j \in 1..k : j \notin removed})
    IN [n \in 1..kept(Len(list)) |->
           list[CHOOSE k \in 1..Len(list) : k \notin removed /\ kept(k) = n]]

(* 'h' in a quiz: the first time, two wrong options chosen at random are
   removed and correct_index is recomputed; afterwards it is refused *)
QuizHint ==
    /\ pc = "prompt"
    /\ prompt.handler \in {"_quiz_definition_to_term", "_quiz_term_to_definition"}
    /\ IF ~prompt.used_hint
       THEN LET wrong_indices == {k \in DOMAIN prompt.options : ~prompt.options[k]}
            IN \E indices_to_remove \in SUBSET wrong_indices :
                 /\ Cardinality(indices_to_remove) = Min(2, Cardinality(wrong_indices))
                 /\ LET options == Without(prompt.options, indices_to_remove)
                    IN prompt' = [prompt EXCEPT
                           !.options = options,
                           !.correct_index = CHOOSE k \in DOMAIN options : options[k],
                           !.used_hint = TRUE]
                 /\ UNCHANGED <<cards, clock, call, pc, session, study,
                                session_stats, previous_stage_distribution, file>>
       ELSE Reprompt

(* any other key in a quiz *)
QuizOtherKey ==
    /\ pc = "prompt"
    /\ prompt.handler \in {"_quiz_definition_to_term", "_quiz_term_to_definition"}
    /\ Reprompt

(* _type_term_to_definition, _type_definition_to_term: Enter after typing a
   text whose similarity to the answer is given in tenths *)
TypedAnswer(similarity, response_time) ==
    /\ pc = "prompt"
    /\ prompt.handler \in {"_type_term_to_definition", "_type_definition_to_term"}
    /\ Return(<<IF similarity > 7 THEN True
                ELSE IF similarity > 3 THEN hint_correct
                ELSE False,
                Some(response_time)>>)
    /\ UNCHANGED <<cards, clock, call, session, session_stats,
                   previous_stage_distribution, file>>

(* A variant of the hint that removes one option on offer, whichever *)
McqHintOutcomes_any(card, available_options) ==
    {Filter(available_options, ToSet(available_options) \ {k}) :
        k \in ToSet(available_options)}

(* _mcq_practice_mode, lines 1033-1036 and 1142-1145: the hint removes
   min(max(1, len(wrong_numbers) // 2), len(wrong_numbers)) wrong options
   chosen at random *)
McqHintOutcomes(card, available_options) ==
    LET available_letters == get_available_option_letters(card)
        wrong_numbers == {k \in DOMAIN available_letters :
                             /\ available_letters[k] \notin get_correct_answers_set(card)
                             /\ k \in ToSet(available_options)}
        n == Cardinality(wrong_numbers)
    IN {Filter(available_options, ToSet(available_options) \ numbers_to_remove) :
           numbers_to_remove \in {r \in SUBSET wrong_numbers :
                                     Cardinality(r) = Min(Max(1, n \div 2), n)}}

(* 'h' in _mcq_practice_mode, as a key (one answer) or as the line typed
   (several answers) *)
McqHint ==
    /\ pc = "prompt"
    /\ prompt.handler = "_mcq_practice_mode"
    /\ IF prompt.allow_hints /\ ~prompt.used_hint
       THEN /\ \E available_options \in
                     McqHintOutcomes(cards[current_card], prompt.available_options) :
                  prompt' = [prompt EXCEPT !.available_options = available_options,
                                           !.used_hint = TRUE]
            /\ UNCHANGED <<cards, clock, call, pc, session, study, session_stats,
                           previous_stage_distribution, file>>
       ELSE Reprompt

(* _mcq_practice_mode, one correct answer: a key; digits above max_option
   and keys that are neither digit, 'h' nor ESC are invalid *)
McqKey(choice_num, response_time) ==
    /\ pc = "prompt"
    /\ prompt.handler = "_mcq_practice_mode"
    /\ ~has_multiple_correct_answers(cards[current_card])
    /\ LET card == cards[current_card]
           available_letters == get_available_option_letters(card)
       IN IF choice_num > Len(available_letters)
          THEN Reprompt
          ELSE IF choice_num \notin ToSet(prompt.available_options)
          THEN Reprompt
          ELSE /\ Return(<<IF available_letters[choice_num]
                                  \notin get_correct_answers_set(card) THEN False
                           ELSE correct_outcome(prompt.used_hint),
                           Some(response_time)>>)
               /\ UNCHANGED <<cards, clock, call, session, session_stats,
                              previous_stage_distribution, file>>

(* _mcq_practice_mode, several correct answers: Enter after a line of
   numbers; numbers out of range or eliminated by the hint are dropped *)
McqLine(user_input, response_time) ==
    /\ pc = "prompt"
    /\ prompt.handler = "_mcq_practice_mode"
    /\ has_multiple_correct_answers(cards[current_card])
    /\ LET card == cards[current_card]
           available_letters == get_available_option_letters(card)
           selected_numbers == Filter(user_input, ToSet(prompt.available_options))
           selected_letters == [k \in DOMAIN selected_numbers |->
                                   available_letters[selected_numbers[k]]]
       IN IF selected_numbers = <<>>
          THEN Reprompt
          ELSE \E ret \in {calculate_partial_score(card, selected_letters)} :
               /\ Return(<<IF ret.is_perfect THEN correct_outcome(prompt.used_hint)
                           ELSE IF ret.score > 0 THEN partial(ret.score)
                           ELSE False,
                           Some(response_time)>>)
               /\ call' = [op |-> "calculate_partial_score", card |-> current_card,
                           user_input |-> user_input,
                           selected_answers |-> selected_letters, ret |-> ret]
               /\ UNCHANGED <<cards, clock, session, session_stats,
                              previous_stage_distribution, file>>

(* a line that is not 'h' and holds a word that is not a number: int()
   raises ValueError, the method asks again *)
McqLineNotNumbers ==
    /\ pc = "prompt"
    /\ prompt.handler = "_mcq_practice_mode"
    /\ has_multiple_correct_answers(cards[current_card])
    /\ Reprompt

(* _study_card_set_with_tracking, lines 487-554, after the practice method
   returned: a cancelled card ends the session; otherwise the outcome is
   converted, the card reviewed and counted, and after the last card of the
   set the statistics are computed, shown and stored *)
HandleResult ==
    /\ pc = "result"
    /\ IF study.result = None \/ study.result[1] = None
       THEN /\ pc' = "returned"
            /\ UNCHANGED <<cards, clock, call, study, session_stats,
                           previous_stage_distribution>>
       ELSE LET correct_answer == study.result[1]
                response_time == study.result[2]
                ok == was_correct(correct_answer)
                hinted == correct_answer = hint_correct
                done == [study EXCEPT
                    !.correct_count = @ + (IF ok THEN 1 ELSE 0),
                    !.incorrect_count = @ + (IF ok THEN 0 ELSE 1),
                    !.hint_count = @ + (IF hinted THEN 1 ELSE 0),
                    !.incorrect_cards = IF ok THEN @ ELSE Append(@, current_card),
                    !.set_completed_cards = Append(@, current_card)]
            IN /\ card_review(current_card, q(correct_answer), response_time)
               /\ IF study.i < Len(session.current_set)
                  THEN /\ study' = [done EXCEPT !.i = @ + 1]
                       /\ pc' = "dispatch"
                       /\ UNCHANGED <<session_stats, previous_stage_distribution>>
                  ELSE LET stats == calculate_set_statistics(cards',
                                        session.current_set, done.correct_count,
                                        done.incorrect_count, done.hint_count)
                       IN /\ study' = done
                          /\ previous_stage_distribution' = Some(stats.stage_counts)
                          /\ session_stats' = Append(session_stats, stats)
                          /\ pc' = "after_set"
    /\ UNCHANGED <<session, prompt, file>>

(* A variant of the test that ends Phase 1 that looks only at the deck *)
all_cards_completed_ignoring_carry(current_set_start, all_cards, carry_forward_cards) ==
    current_set_start >= Len(all_cards)

(* study_session, line 349: current_set_start >= len(all_cards) and not
   carry_forward_cards *)
all_cards_completed(current_set_start, all_cards, carry_forward_cards) ==
    current_set_start >= Len(all_cards) /\ carry_forward_cards = <<>>

(* study_session, lines 336-356: the cards missed in the set are carried
   forward; Phase 1 ends when no card is left *)
Phase1AfterSet ==
    /\ pc = "after_set"
    /\ session.phase = 1
    /\ LET unique_incorrect ==
               unique(Filter(study.incorrect_cards, ToSet(session.new_cards)))
           carry_forward_cards == session.carry_forward_cards \o unique_incorrect
       IN /\ session' = [session EXCEPT !.carry_forward_cards = carry_forward_cards]
          /\ pc' = IF all_cards_completed(session.current_set_start,
                                           session.all_cards, carry_forward_cards)
                   THEN "returned" ELSE "phase1"
    /\ UNCHANGED <<cards, clock, call, study, prompt, session_stats,
                   previous_stage_distribution, file>>

(* study_session, lines 412-425: the set is marked recently practiced, and
   a random half of the marks is kept once they exceed 60% of the deck;
   rotations tells whether the halves are all halves or those of the
   rotations only *)
Phase2AfterSetWith(rotations) ==
    /\ pc = "after_set"
    /\ session.phase = 2
    /\ LET random_half(marks) == IF rotations THEN RandomHalfRotations(marks)
                                 ELSE RandomHalf(marks)
           practiced == session.recently_practiced \cup ToSet(session.current_set)
       IN \E cards_to_keep \in IF exceeds_share(practiced, cards)
                                THEN random_half(practiced) ELSE {practiced} :
            session' = [session EXCEPT !.recently_practiced = cards_to_keep]
    /\ pc' = "continue"
    /\ UNCHANGED <<cards, clock, call, study, prompt, session_stats,
                   previous_stage_distribution, file>>

Phase2AfterSet == Phase2AfterSetWith(FALSE)

(* study_session, lines 425-432: another set on 'y' or 'yes', otherwise the
   session ends *)
Continue(choice) ==
    /\ pc = "continue"
    /\ IF choice \in {"y", "yes"}
       THEN /\ pc' = "phase2"
            /\ UNCHANGED <<session, file>>
       ELSE FinishSession
    /\ UNCHANGED <<cards, clock, call, study, prompt, session_stats,
                   previous_stage_distribution>>

Next ==
    \/ StartSession
    \/ Phase1BuildSet
    \/ Phase2BuildSet
    \/ Dispatch
    \/ Escape
    \/ \E response_time \in SessionTimes : ReviewModeSpace(response_time)
    \/ ReviewModeOtherKey
    \/ \E choice \in 1..5, response_time \in SessionTimes :
          QuizChoice(choice, response_time)
    \/ QuizHint
    \/ QuizOtherKey
    \/ \E similarity \in Similarities, response_time \in SessionTimes :
          TypedAnswer(similarity, response_time)
    \/ McqHint
    \/ \E choice_num \in 1..4, response_time \in SessionTimes :
          McqKey(choice_num, response_time)
    \/ \E user_input \in ListsUpTo(1..(Len(Letters) + 1), MaxSelectedLen),
          response_time \in SessionTimes :
          McqLine(user_input, response_time)
    \/ McqLineNotNumbers
    \/ HandleResult
    \/ Phase1AfterSet
    \/ Phase2AfterSet
    \/ \E choice \in {"y", "yes", "n"} : Continue(choice)

Spec == Init /\ [][Next]_vars

-----------------------------------------------------------------------------
(* SpecPhase1: Phase 1 of a study session on vocabulary decks of up to
   MaxPhase1Cards cards, with a learner who answers every prompt and never
   asks for a hint or presses ESC *)

MaxPhase1Cards == 15
MaxPhase1Reviews == 36

(* the rows of a deck file: a new card at the positions in layout.new, a
   card with ease 6.0 studied three times at position layout.strong, and
   elsewhere cards at the ease floor, never studied at the even positions
   and studied three times at the odd ones *)
Phase1Card(layout, i) ==
    IF i \in layout.new
    THEN Flashcard("vocabulary", {}, <<>>, (25 * EaseScale) \div 10, 0)
    ELSE IF i = layout.strong
    THEN Flashcard("vocabulary", {}, <<>>, 6 * EaseScale, 3)
    ELSE Flashcard("vocabulary", {}, <<>>, (13 * EaseScale) \div 10,
                   IF i % 2 = 0 THEN 0 ELSE 3)

Phase1Layouts == [new : SUBSET {1, 2, 10}, strong : {0, 3}]

Phase1Decks ==
    {deck \in {[i \in 1..n |-> Phase1Card(layout, i)] :
                  n \in 1..MaxPhase1Cards, layout \in Phase1Layouts} :
        any_stage_one(deck)}

(* every answer is given within two seconds *)
Phase1Times == {2}

InitPhase1 ==
    /\ cards \in Phase1Decks
    /\ clock = 1
    /\ call = NoCall
    /\ pc = "start"
    /\ session = None
    /\ study = None
    /\ prompt = NoPrompt
    /\ session_stats = <<>>
    /\ previous_stage_distribution = None
    /\ file = [rows |-> [i \in DOMAIN cards |-> to_dict(cards[i])], saves |-> 0]

NextPhase1 ==
    \/ StartSession
    \/ Phase1BuildSet
    \/ DispatchWithin(MaxPhase1Reviews)
    \/ \E response_time \in Phase1Times : ReviewModeSpace(response_time)
    \/ \E choice \in 1..5, response_time \in Phase1Times :
          QuizChoice(choice, response_time)
    \/ \E similarity \in Similarities, response_time \in Phase1Times :
          TypedAnswer(similarity, response_time)
    \/ HandleResult
    \/ Phase1AfterSet

SpecPhase1 == InitPhase1 /\ [][NextPhase1]_vars

-----------------------------------------------------------------------------
(* SpecPhase2: Phase 2 of a study session on vocabulary decks of up to
   MaxPhase2Cards studied cards, with a learner who answers every prompt
   without hints or ESC, misses at most MaxPhase2Wrong answers and asks
   for at most MaxPhase2Sets sets *)

MaxPhase2Cards == 16
MaxPhase2Reviews == 18
MaxPhase2Wrong == 1
MaxPhase2Sets == 3

(* the ease, in tenths, of the rows of a deck file: values of the stages 2
   to 5 in an order that is not sorted and repeats *)
Phase2Eases == <<30, 20, 45, 20, 35, 25, 50, 20>>

Phase2Card(i) ==
    Flashcard("vocabulary", {}, <<>>,
              (Phase2Eases[((i - 1) % Len(Phase2Eases)) + 1] * EaseScale) \div 10, 1)

Phase2Decks == {[i \in 1..n |-> Phase2Card(i)] : n \in 1..MaxPhase2Cards}

Phase2Times == {2}

(* the incorrect answers of the session so far *)
RECURSIVE incorrect_total(_)
incorrect_total(stats) ==
    IF stats = <<>> THEN 0
    ELSE stats[Len(stats)].incorrect_count
             + incorrect_total(SubSeq(stats, 1, Len(stats) - 1))

MayMiss ==
    incorrect_total(session_stats) + study.incorrect_count < MaxPhase2Wrong

InitPhase2 ==
    /\ cards \in Phase2Decks
    /\ clock = 1
    /\ call = NoCall
    /\ pc = "start"
    /\ session = None
    /\ study = None
    /\ prompt = NoPrompt
    /\ session_stats = <<>>
    /\ previous_stage_distribution = None
    /\ file = [rows |-> [i \in DOMAIN cards |-> to_dict(cards[i])], saves |-> 0]

NextPhase2 ==
    \/ StartSession
    \/ Phase2BuildSetWith(TRUE)
    \/ DispatchWithin(MaxPhase2Reviews)
    \/ \E response_time \in Phase2Times : ReviewModeSpace(response_time)
    \/ \E choice \in 1..5, response_time \in Phase2Times :
          /\ pc = "prompt"
          /\ choice = prompt.correct_index \/ MayMiss
          /\ QuizChoice(choice, response_time)
    \/ \E similarity \in {3, 8}, response_time \in Phase2Times :
          /\ pc = "prompt"
          /\ similarity > 7 \/ MayMiss
          /\ TypedAnswer(similarity, response_time)
    \/ HandleResult
    \/ Phase2AfterSetWith(TRUE)
    \/ \E choice \in {"y", "n"} :
          /\ choice = "n" \/ Len(session_stats) < MaxPhase2Sets
          /\ Continue(choice)

SpecPhase2 == InitPhase2 /\ [][NextPhase2]_vars

-----------------------------------------------------------------------------
(* Properties of Flashcard.review (SpecReview, SpecTime) *)

Reviewed == call.op = "review"
ReviewedCard == cards[call.card]

(* C1: after any review, with any quality in 0..5 (the partial-credit
   qualities included), any response time or none and any prior ease, the
   card's ease is at least 1.3; so every card reviewed at least once has
   ease >= 1.3.  (A loaded card has no last_review in this model, so
   last_review is set exactly on the reviewed cards.) *)
C1_EaseFloor ==
    \A i \in DOMAIN cards :
        cards[i].last_review # None => 10 * cards[i].ease >= 13 * EaseScale

(* C1 witness: a failed review of a card whose ease would have dropped
   below 1.3 leaves it at exactly 1.3 *)
C1_Witness ==
    /\ Reviewed
    /\ call.quality = 1 * QualityScale
    /\ 10 * call.old.ease < 40 * EaseScale
    /\ 10 * ReviewedCard.ease = 13 * EaseScale

(* C2: a review with quality < 3 sets repetitions to floor(old / 2), not to
   0, and the interval to 1 *)
C2_FailureHalves ==
    (Reviewed /\ call.quality < 3 * QualityScale) =>
        /\ 2 * ReviewedCard.repetitions <= call.old.repetitions
        /\ call.old.repetitions <= 2 * ReviewedCard.repetitions + 1
        /\ ReviewedCard.interval = 1

(* C2 witness: a failed review of a card with 3 repetitions leaves 1 *)
C2_Witness ==
    /\ Reviewed
    /\ call.quality < 3 * QualityScale
    /\ call.old.repetitions = 3
    /\ ReviewedCard.repetitions = 1
    /\ call.old.interval > 1

(* C3: a review with quality >= 3 adds exactly 1 to repetitions, and the new
   interval is 1 when the new repetitions is 1, 6 when it is 2, and
   otherwise floor(previous interval x ease before the review) *)
C3_SuccessSequence ==
    (Reviewed /\ call.quality >= 3 * QualityScale) =>
        /\ ReviewedCard.repetitions = call.old.repetitions + 1
        /\ ReviewedCard.repetitions = 1 => ReviewedCard.interval = 1
        /\ ReviewedCard.repetitions = 2 => ReviewedCard.interval = 6
        /\ ReviewedCard.repetitions > 2 =>
              /\ ReviewedCard.interval * EaseScale <= call.old.interval * call.old.ease
              /\ call.old.interval * call.old.ease < (ReviewedCard.interval + 1) * EaseScale

(* C3 witness: the third successful review in a row of a new card: the
   interval went 1, 6 and is now floor(6 x ease), which is not a whole
   multiple *)
C3_Witness ==
    /\ Reviewed
    /\ clock = 4
    /\ call.quality >= 3 * QualityScale
    /\ ReviewedCard.repetitions = 3
    /\ call.old.interval = 6
    /\ ReviewedCard.interval > 6
    /\ ReviewedCard.interval * EaseScale < call.old.interval * call.old.ease

(* 5 x baseEaseChange, in 1/360ths, for a quality in thirds:
   baseEaseChange = 0.1 - (5-q) x (0.08 + (5-q) x 0.02) *)
ClaimedBaseChange(quality) ==
    LET d == 5 * QualityScale - quality     \* 5 - q, in thirds
    IN  180 - d * (48 + 4 * d)

(* C4: the new ease is max(1.3, old ease + 5 x baseEaseChange x
   timeModifier); with no response time quality 5 adds 0.5, quality 4 adds
   nothing, quality 3 subtracts 0.7 and quality 1 subtracts 2.7, before the
   floor at 1.3 *)
C4_EaseUpdate ==
    Reviewed =>
        LET change == (ClaimedBaseChange(call.quality) * call.time_modifier
                          * EaseScale) \div (360 * TenthScale)
            raw == call.old.ease + change
        IN  /\ (ClaimedBaseChange(call.quality) * call.time_modifier * EaseScale)
                  % (360 * TenthScale) = 0
            /\ ReviewedCard.ease = (IF 10 * raw >= 13 * EaseScale
                                    THEN raw ELSE (13 * EaseScale) \div 10)
            /\ call.response_time = None =>
                  /\ call.quality = 5 * QualityScale => 10 * change = 5 * EaseScale
                  /\ call.quality = 4 * QualityScale => change = 0
                  /\ call.quality = 3 * QualityScale => 10 * change = -7 * EaseScale
                  /\ call.quality = 1 * QualityScale => 10 * change = -27 * EaseScale

(* C4 witness: an untimed quality-3 review that took exactly 0.7 off an
   ease that stayed above the floor *)
C4_Witness ==
    /\ Reviewed
    /\ call.response_time = None
    /\ call.quality = 3 * QualityScale
    /\ 10 * ReviewedCard.ease = 10 * call.old.ease - 7 * EaseScale
    /\ 10 * ReviewedCard.ease > 13 * EaseScale

(* C5: the time modifier of a review is 1.0 without a response time, and
   otherwise 1.2 for t <= 3, 1.1 for 3 < t <= 6, 1.0 for 6 < t <= 12, 0.9
   for 12 < t <= 20 and 0.8 for t > 20 *)
C5_TimeBands ==
    Reviewed =>
        IF call.response_time = None THEN call.time_modifier = 10
        ELSE LET t == call.response_time[1]
             IN  /\ t <= 3 => call.time_modifier = 12
                 /\ (3 < t /\ t <= 6) => call.time_modifier = 11
                 /\ (6 < t /\ t <= 12) => call.time_modifier = 10
                 /\ (12 < t /\ t <= 20) => call.time_modifier = 9
                 /\ t > 20 => call.time_modifier = 8

(* C5 witness: a review answered in exactly 20 seconds used 0.9, and the
   ease moved by 0.9 x the untimed change *)
C5_Witness ==
    /\ Reviewed
    /\ call.response_time = Some(20)
    /\ call.time_modifier = 9
    /\ call.quality = 5 * QualityScale
    /\ 100 * ReviewedCard.ease = 100 * call.old.ease + 45 * EaseScale

-----------------------------------------------------------------------------
(* Properties of calculate_partial_score and question_kind (SpecCard) *)

Scored == call.op = "calculate_partial_score"
ScoredCard == cards[call.card]

(* C7: for an MCQ card with non-empty correct set C and selection S,
   score = max(0, |C n S|/|C| - 0.25 x |S \ C|) and isPerfect = (|C n S| = |C|
   and |S \ C| = 0); C = {a,c}, S = {a,b} gives 0.25 and not perfect; the
   score lies in [0,1] and is 1 exactly when isPerfect *)
C7_PartialScore ==
    (Scored /\ ScoredCard.card_type = "mcq" /\ ScoredCard.correct_answers # <<>>) =>
        LET C == {ScoredCard.correct_answers[k] : k \in DOMAIN ScoredCard.correct_answers}
            S == {call.selected_answers[k] : k \in DOMAIN call.selected_answers}
            tc == Cardinality(C)
            cs == Cardinality(C \cap S)
            ws == Cardinality(S \ C)
            raw == ScoreScale * cs * 4 - ScoreScale * ws * tc   \* 4 x tc x (cs/tc - ws/4)
        IN  /\ 4 * tc * call.ret.score = (IF raw > 0 THEN raw ELSE 0)
            /\ call.ret.is_perfect = (cs = tc /\ ws = 0)
            /\ (C = {"a", "c"} /\ S = {"a", "b"}) =>
                  (4 * call.ret.score = ScoreScale /\ ~call.ret.is_perfect)
            /\ 0 <= call.ret.score /\ call.ret.score <= ScoreScale
            /\ (call.ret.score = ScoreScale) = call.ret.is_perfect

(* C7 witness: the example, correct answers a,c and selection a,b *)
C7_Witness ==
    /\ Scored
    /\ ScoredCard.correct_answers = <<"a", "c">>
    /\ call.selected_answers = <<"a", "b">>
    /\ 4 * call.ret.score = ScoreScale

IsSortedLetters(list) ==
    \A k \in 1..(Len(list) - 1) : LetterIndex(list[k]) < LetterIndex(list[k + 1])

(* C8: the result depends only on the set of selected letters: every list
   with the same letters (reordered or with repeats) gives the same score,
   isPerfect and feedback lists, and those lists are sorted *)
C8_OrderIndependent ==
    Scored =>
        LET S == {call.selected_answers[k] : k \in DOMAIN call.selected_answers}
        IN  /\ \A other \in ListsUpTo(S, MaxSelectedLen + 1) :
                  {other[k] : k \in DOMAIN other} = S =>
                      calculate_partial_score(ScoredCard, other) = call.ret
            /\ (ScoredCard.card_type = "mcq" /\ ScoredCard.correct_answers # <<>>) =>
                  /\ IsSortedLetters(call.ret.feedback_info.correct_answers)
                  /\ IsSortedLetters(call.ret.feedback_info.wrong_answers)
                  /\ IsSortedLetters(call.ret.feedback_info.missed_answers)

(* C8 witness: a selection entered in descending order, partly right, with
   two missed answers listed in order *)
C8_Witness ==
    /\ Scored
    /\ ScoredCard.correct_answers = <<"d", "a", "b">>
    /\ call.selected_answers = <<"c", "a">>
    /\ call.ret.feedback_info.wrong_answers = <<"c">>
    /\ call.ret.feedback_info.missed_answers = <<"b", "d">>

KindAsked == call.op = "question_kind"
KindCard == cards[call.card]

(* C9 as stated: 'tf' iff exactly 2 options and exactly 1 correct answer,
   'mcq_multi' iff more than 1 correct answer, 'mcq_single' otherwise, and
   None for a vocabulary card *)
C9_Original ==
    KindAsked =>
        LET n == Cardinality({KindCard.correct_answers[k] :
                                 k \in DOMAIN KindCard.correct_answers})
        IN  IF KindCard.card_type # "mcq" THEN call.ret = "None"
            ELSE /\ (call.ret = "tf") = (Cardinality(KindCard.options) = 2 /\ n = 1)
                 /\ (call.ret = "mcq_multi") = (n > 1)
                 /\ call.ret \in {"tf", "mcq_multi", "mcq_single"}

(* C9 amended: 'tf' iff the card's options are exactly a and b and its
   correct-answer list has exactly one entry, 'mcq_multi' iff that list has
   more than one entry, 'mcq_single' otherwise, and None for a vocabulary
   card *)
C9_QuestionKind ==
    KindAsked =>
        LET n == Len(KindCard.correct_answers)
        IN  IF KindCard.card_type # "mcq" THEN call.ret = "None"
            ELSE /\ (call.ret = "tf") = (KindCard.options = {"a", "b"} /\ n = 1)
                 /\ (call.ret = "mcq_multi") = (n > 1)
                 /\ (call.ret = "mcq_single") =
                        ~((KindCard.options = {"a", "b"} /\ n = 1) \/ n > 1)

(* C9 witness: a card with the two options a and c and one correct answer
   is classified mcq_single *)
C9_Witness ==
    /\ KindAsked
    /\ KindCard.options = {"a", "c"}
    /\ KindCard.correct_answers = <<"a">>
    /\ call.ret = "mcq_single"

-----------------------------------------------------------------------------
(* Properties of the study session (Spec) *)

(* a practice method is waiting for a key: the card has just been
   dispatched *)
Presented == pc = "prompt"
PresentedCard == cards[current_card]

(* C6: the stage a card is dispatched with is determined by its repetitions
   and ease alone and is one of 1..5: 1 iff repetitions = 0 or ease < 2.0;
   otherwise 2 for 2.0 <= ease < 3.0, 3 for 3.0 <= ease < 4.0, 4 for
   4.0 <= ease < 5.0 and 5 for ease >= 5.0, the boundaries 2.0, 3.0, 4.0 and
   5.0 falling in the upper stage; and stage 1 is what sends the card to
   review mode. *)
C6_StageDispatch ==
    Presented =>
        LET r == PresentedCard.repetitions
            e == PresentedCard.ease
            s == ValueOf(study.current_stage)
        IN /\ study.current_stage # None
           /\ s \in 1..5
           /\ (s = 1) <=> (r = 0 \/ e < 2 * EaseScale)
           /\ (s = 2) <=> (r # 0 /\ 2 * EaseScale <= e /\ e < 3 * EaseScale)
           /\ (s = 3) <=> (r # 0 /\ 3 * EaseScale <= e /\ e < 4 * EaseScale)
           /\ (s = 4) <=> (r # 0 /\ 4 * EaseScale <= e /\ e < 5 * EaseScale)
           /\ (s = 5) <=> (r # 0 /\ 5 * EaseScale <= e)
           /\ (s = 1) <=> (prompt.handler = "_show_card_review_mode")

(* C6 witness: a card with ease 1.9 and 3 repetitions is shown in review
   mode, stage 1 *)
C6_Witness ==
    /\ Presented
    /\ PresentedCard.repetitions = 3
    /\ 10 * PresentedCard.ease = 19 * EaseScale
    /\ study.current_stage = Some(1)
    /\ prompt.handler = "_show_card_review_mode"

(* a practice method has returned an outcome, not a cancellation *)
Answered ==
    /\ pc = "result"
    /\ study.result # None
    /\ study.result[1] # None

(* the quality the claim gives for an outcome, in thirds *)
ClaimedQuality(outcome) ==
    IF outcome = True THEN 5 * QualityScale
    ELSE IF outcome = hint_correct THEN 3 * QualityScale
    ELSE IF outcome = False THEN 1 * QualityScale
    ELSE CHOOSE x \in 0..(5 * QualityScale) :
            x * ScoreScale = QualityScale * (ScoreScale + 4 * outcome[2])

(* C10: when a presentation has produced an outcome, the next step reviews
   the presented card once, with quality 5 for correct, 3 for hint_correct,
   1 for incorrect and 1 + 4p for ('partial', p), and with the response
   time the practice method measured; no other step reviews or changes any
   card. *)
C10_OutcomeToQuality ==
    [][IF Answered
       THEN /\ clock' = clock + 1
            /\ call'.op = "review"
            /\ call'.card = current_card
            /\ call'.quality = ClaimedQuality(study.result[1])
            /\ call'.response_time = study.result[2]
            /\ call'.response_time # None
            /\ cards' = [cards EXCEPT ![current_card] =
                            review(cards[current_card],
                                   ClaimedQuality(study.result[1]),
                                   study.result[2], clock)]
       ELSE /\ clock' = clock
            /\ cards' = cards]_vars

(* C10 witness: a multi-answer selection scored 0.25, answered in 25
   seconds, has been reviewed with quality 2 and that time *)
C10_Witness ==
    /\ pc \in {"dispatch", "after_set"}
    /\ study.result = <<partial(3), Some(25)>>
    /\ call.op = "review"
    /\ call.quality = 2 * QualityScale
    /\ call.response_time = Some(25)
    /\ call.card = study.set_completed_cards[Len(study.set_completed_cards)]
    /\ cards[call.card].last_review = Some(clock - 1)

(* C11: on a non-empty deck the session enters Phase 1 if and only if, at
   its start, some card has repetitions = 0 or ease < 2.0, and otherwise
   goes directly to Phase 2: checked of every session before its first
   review, while the cards are as they were loaded. *)
C11_PhaseChoice ==
    (session # None /\ cards # <<>> /\ clock = 1) =>
        LET some_stage_one ==
                \E i \in DOMAIN cards :
                    cards[i].repetitions = 0 \/ 10 * cards[i].ease < 20 * EaseScale
        IN /\ session.phase = IF some_stage_one THEN 1 ELSE 2
           /\ pc = "phase1" => some_stage_one
           /\ pc = "phase2" => ~some_stage_one
           /\ pc # "start"

(* C11 witness: a deck whose only card has 3 repetitions and ease 1.9 is in
   Phase 1, about to build its first set *)
C11_Witness ==
    /\ pc = "phase1"
    /\ session.phase = 1
    /\ clock = 1
    /\ Len(cards) = 1
    /\ cards[1].repetitions = 3
    /\ 10 * cards[1].ease = 19 * EaseScale

(* the learner pressed ESC at a prompt: the practice method returned None or
   (None, None), or save_deck raised while it handled the key *)
Cancelled ==
    /\ pc \in {"result", "returned", "crashed"}
    /\ study # None
    /\ (study.result = None \/ study.result[1] = None)

(* study_session has returned from a session on a non-empty deck *)
SessionReturned == pc = "returned" /\ cards # <<>>

(* C12 as stated: a session that is not cancelled and has finished Phase 1
   enters Phase 2 in the same session, so no session that was not cancelled
   returns without having been in Phase 2. *)
C12_Phase1ThenPhase2 ==
    (SessionReturned /\ ~Cancelled) => session.phase = 2

(* C13 as stated: every session end, normal or cancelled, has persisted the
   deck through save_deck before study_session returns: save_deck was
   called and the file holds the rows of the cards as they are. *)
C13_AlwaysSaved ==
    SessionReturned =>
        /\ file.saves >= 1
        /\ file.rows = [i \in DOMAIN cards |-> to_dict(cards[i])]

(* C14 as stated: every session end, normal or cancelled, has emitted the
   session summary over the completed sets before study_session returns
   (asked here only of sessions that completed at least one set). *)
C14_AlwaysSummary ==
    (SessionReturned /\ session_stats # <<>>) => session.summary_shown

(* a step in which the learner presses ESC at a prompt *)
EscapeStep == pc = "prompt" /\ Cancelled'

(* C15 as stated: when the learner cancels at a prompt, the card being
   presented keeps its ease, repetitions, interval and last review and adds
   nothing to the statistics, every card answered earlier keeps its update,
   and the saved deck holds exactly the cards as they then are. *)
C15_CancelKeepsAndSaves ==
    [][EscapeStep =>
          /\ cards' = cards
          /\ clock' = clock
          /\ session_stats' = session_stats
          /\ study'.correct_count = study.correct_count
          /\ study'.incorrect_count = study.incorrect_count
          /\ study'.hint_count = study.hint_count
          /\ file'.rows = [i \in DOMAIN cards |-> to_dict(cards[i])]]_vars

(* C16: when the learner presses ESC at a prompt, in either phase and in
   any practice method, save_deck is called in that step, it is the only
   call of the session, and from then on no card is presented, no prompt is
   issued, no card is reviewed and the file is not written again: the
   session only returns. *)
C16_CancelSavesOnce ==
    [][/\ EscapeStep =>
            /\ file.saves = 0
            /\ file'.saves = 1
            /\ prompt' = NoPrompt
       /\ Cancelled =>
            /\ file.saves = 1
            /\ file' = file
            /\ prompt = NoPrompt /\ prompt' = NoPrompt
            /\ pc' \in {"returned", "crashed"}
            /\ cards' = cards /\ clock' = clock /\ study' = study
            /\ session_stats' = session_stats]_vars

(* a Phase 2 session cancelled at a quiz or MCQ prompt after one answered
   card has returned with the file written once *)
C16_Witness ==
    /\ pc = "returned" /\ Cancelled
    /\ session.phase = 2 /\ clock = 2
    /\ study.result = <<None, None>>
    /\ file.saves = 1

-----------------------------------------------------------------------------
(* Properties of Phase 1 (SpecPhase1) *)

(* the repetitions of the cards when the session started: Phase 1 never
   writes the file, so its rows still hold them *)
StartRepetitions(i) == file.rows[i].repetitions

(* list holds every card of the deck once, ascending by the repetitions at
   session start, cards with equal repetitions in deck order *)
SortedByStartRepetitions(list) ==
    /\ Len(list) = Len(cards)
    /\ ToSet(list) = DOMAIN cards
    /\ \A j, k \in DOMAIN list :
          j < k => \/ StartRepetitions(list[j]) < StartRepetitions(list[k])
                   \/ /\ StartRepetitions(list[j]) = StartRepetitions(list[k])
                      /\ list[j] < list[k]

(* a step that builds the next Phase 1 set *)
BuildStep == pc = "phase1" /\ pc' = "dispatch"

(* a set of Phase 1 is being studied or has just been completed *)
InPhase1Set ==
    /\ session # None /\ session.phase = 1
    /\ pc \in {"dispatch", "prompt", "result", "after_set"}

(* C17: each Phase 1 set is made of the first cards of carry_forward_cards
   (at most 7, in their order, removed from it) followed by as many cards
   as are needed to reach 7 from the deck sorted ascending by the
   repetitions at session start, taken from current_set_start, which
   advances by exactly the number taken; the learner is presented that
   list and then the same list again in the same order. *)
C17_Phase1Set ==
    [][/\ BuildStep =>
            LET carry == session.carry_forward_cards
                from_carry == Min(7, Len(carry))
                cursor == session.current_set_start
                taken == Min(7 - from_carry, Len(cards) - cursor)
            IN /\ SortedByStartRepetitions(session.all_cards)
               /\ session'.new_cards =
                      SubSeq(carry, 1, from_carry)
                         \o SubSeq(session.all_cards, cursor + 1, cursor + taken)
               /\ session'.carry_forward_cards =
                      SubSeq(carry, from_carry + 1, Len(carry))
               /\ session'.current_set_start = cursor + taken
               /\ session'.all_cards = session.all_cards
               /\ Len(session'.new_cards) \in 1..7
               /\ study'.i = 1 /\ study'.set_completed_cards = <<>>
       /\ InPhase1Set' =>
            LET presented == session'.new_cards \o session'.new_cards
            IN /\ session'.current_set = presented
               /\ study'.i \in DOMAIN presented
               /\ study'.set_completed_cards =
                      SubSeq(presented, 1,
                             IF pc' = "after_set" THEN Len(presented)
                             ELSE study'.i - 1)
               /\ pc' = "after_set" => study'.i = 2 * Len(session'.new_cards)
               /\ ~BuildStep => session'.new_cards = session.new_cards]_vars

(* the second set of a deck of nine cards, one card carried forward and the
   last two cards of the sorted deck, has been presented twice *)
C17_Witness ==
    /\ Len(cards) = 9 /\ pc = "after_set" /\ Len(session_stats) = 2
    /\ session_stats[1].incorrect_count = 1
    /\ Len(session.new_cards) = 3
    /\ session.new_cards[2] = session.all_cards[8]
    /\ session.new_cards[3] = session.all_cards[9]
    /\ session.current_set_start = 9
    /\ study.set_completed_cards = session.new_cards \o session.new_cards
    /\ session.all_cards # [i \in 1..9 |-> i]

(* the step after the last card of a Phase 1 set, lines 336-351 *)
AfterSetStep == pc = "after_set" /\ session.phase = 1

(* C18: in Phase 1 the cards of a set that were answered incorrectly at
   least once in that set are appended to carry_forward_cards, each exactly
   once even when it was wrong in both passes, and no other card is
   appended; every card carried forward is part of the next set. *)
C18_CarryForward ==
    [][/\ Answered =>
            study'.incorrect_cards =
                IF study.result[1] = False
                THEN Append(study.incorrect_cards, current_card)
                ELSE study.incorrect_cards
       /\ AfterSetStep =>
            LET carry == session.carry_forward_cards
                after == session'.carry_forward_cards
                appended == SubSeq(after, Len(carry) + 1, Len(after))
                wrong == ToSet(study.incorrect_cards)
            IN /\ Len(after) >= Len(carry)
               /\ SubSeq(after, 1, Len(carry)) = carry
               /\ ToSet(appended) = wrong
               /\ Len(appended) = Cardinality(wrong)
               /\ wrong \subseteq ToSet(session.new_cards)
               /\ wrong # {} => pc' = "phase1"
       /\ BuildStep =>
            /\ ToSet(session.carry_forward_cards) \subseteq ToSet(session'.new_cards)
            /\ session'.carry_forward_cards = <<>>]_vars

(* a set of three cards in which one card was answered incorrectly in both
   passes and the others in none: the card is carried forward once *)
C18_Witness ==
    /\ pc = "phase1" /\ session.phase = 1 /\ study # None
    /\ Len(session.new_cards) = 3
    /\ Len(study.incorrect_cards) = 2
    /\ study.incorrect_cards[1] = study.incorrect_cards[2]
    /\ session.carry_forward_cards = <<study.incorrect_cards[1]>>

(* no answer of the session has been incorrect: none in a completed set,
   none in the set being studied, and the outcome in hand is not False *)
EveryAnswerCorrect ==
    /\ \A k \in DOMAIN session_stats : session_stats[k].incorrect_count = 0
    /\ study # None => study.incorrect_count = 0
    /\ Answered => study.result[1] # False

(* ceil(n / 7) *)
SetsFor(n) == (n + 6) \div 7

(* C19: when Phase 1 is entered on a deck of N cards and every answer is
   correct, Phase 1 ends after exactly ceil(N/7) sets with
   carry_forward_cards empty (2 sets for N = 10); and Phase 1 never ends
   while cards of the deck are unvisited or carry_forward_cards is not
   empty. *)
C19_Phase1Termination ==
    (session # None /\ session.phase = 1) =>
        /\ pc = "returned" =>
              /\ session.current_set_start = Len(cards)
              /\ session.carry_forward_cards = <<>>
        /\ EveryAnswerCorrect =>
              /\ session.carry_forward_cards = <<>>
              /\ Len(session_stats) <= SetsFor(Len(cards))
              /\ pc = "returned" <=>
                     /\ Len(session_stats) = SetsFor(Len(cards))
                     /\ pc \notin {"after_set", "result"}
              /\ clock <= 2 * Len(cards) + 1

(* Phase 1 on a deck of ten cards has ended after two sets of 14 and 6
   correct answers, quiz answers among them *)
C19_Witness ==
    /\ Len(cards) = 10 /\ pc = "returned" /\ session.phase = 1
    /\ EveryAnswerCorrect
    /\ Len(session_stats) = 2
    /\ session_stats[1].correct_count = 14
    /\ session_stats[2].correct_count = 6
    /\ \E i \in DOMAIN cards : cards[i].ease > 3 * EaseScale

-----------------------------------------------------------------------------
(* Properties of the end of Phase 1 (Spec) *)

(* Phase 1 has ended normally: the loop was left at line 351 *)
Phase1Completed ==
    /\ pc = "returned" /\ session.phase = 1
    /\ ~Cancelled

(* C20 as stated: when Phase 1 ends normally no card of the deck classifies
   as stage 1: every card has repetitions >= 1 and ease >= 2.0. *)
C20_NoStageOneLeft ==
    Phase1Completed =>
        \A i \in DOMAIN cards :
            cards[i].repetitions >= 1 /\ cards[i].ease >= 2 * EaseScale

-----------------------------------------------------------------------------
(* Properties of Phase 2 (SpecPhase2) *)

(* card i comes before card j when the deck is ordered by ease, cards of
   equal ease in deck order *)
Harder(ease, i, j) == ease[i] < ease[j] \/ (ease[i] = ease[j] /\ i < j)

(* the 8 cards of lowest ease, all cards of a deck of at most 8 *)
HardestCards(ease) ==
    {i \in DOMAIN ease :
        Cardinality({j \in DOMAIN ease : Harder(ease, j, i)}) < 8}

CurrentEase == [i \in DOMAIN cards |-> cards[i].ease]

(* a step that builds the next Phase 2 set *)
Phase2BuildStep == pc = "phase2" /\ pc' = "dispatch"

(* C21: every Phase 2 set contains the 8 cards of the whole deck with the
   lowest ease (all cards of a deck of at most 8), computed from the ease
   the cards have when the set is built, cards of equal ease taken in deck
   order; they are the last cards of the set, hardest first. *)
C21_HardestInSet ==
    [][Phase2BuildStep =>
          LET hardest == HardestCards(CurrentEase)
              set == session'.current_set
              tail == SubSeq(set, Len(set) - Cardinality(hardest) + 1, Len(set))
          IN /\ cards' = cards
             /\ Cardinality(hardest) = Min(8, Len(cards))
             /\ hardest \subseteq ToSet(set)
             /\ ToSet(tail) = hardest
             /\ \A j, k \in DOMAIN tail :
                   j < k => Harder(CurrentEase, tail[j], tail[k])]_vars

(* a later set of a deck of 16 cards: the 8 hardest cards are no longer the
   8 hardest of the start, one card is left out of the set, and the first
   card left out of the 8 has the ease of the last one in *)
C21_Witness ==
    /\ Len(cards) = 16 /\ pc = "dispatch" /\ session.phase = 2
    /\ session_stats # <<>> /\ study.i = 1
    /\ HardestCards(CurrentEase) # HardestCards([i \in DOMAIN cards |-> file.rows[i].ease])
    /\ HardestCards(CurrentEase) \subseteq ToSet(session.current_set)
    /\ ToSet(session.current_set) # DOMAIN cards
    /\ \E i \in HardestCards(CurrentEase), j \in DOMAIN cards \ HardestCards(CurrentEase) :
          cards[i].ease = cards[j].ease

(* the cards outside the 8 hardest, and those of them not recently
   practiced, when a Phase 2 set is built *)
Candidates == DOMAIN cards \ HardestCards(CurrentEase)
Unpracticed == Candidates \ session.recently_practiced

(* the rule of C22 for the part of the new set outside the 8 hardest; the
   third case applies when none_unpracticed holds *)
SelectionRule(none_unpracticed) ==
    LET chosen == ToSet(session'.current_set) \ HardestCards(CurrentEase)
        u == Cardinality(Unpracticed)
    IN /\ chosen \subseteq Candidates
       /\ u >= 7 =>
             /\ chosen \subseteq Unpracticed
             /\ Cardinality(chosen) = 7
             /\ session'.recently_practiced = session.recently_practiced
       /\ u \in 1..6 =>
             /\ Unpracticed \subseteq chosen
             /\ Cardinality(chosen) = Min(7, Cardinality(Candidates))
             /\ session'.recently_practiced = session.recently_practiced
       /\ none_unpracticed =>
             /\ session'.recently_practiced = {}
             /\ Cardinality(chosen) = Min(7, Cardinality(Candidates))
       /\ chosen \cap session.recently_practiced # {} => u < 7

(* C22 as stated: in each Phase 2 set the part outside the 8 hardest is
   chosen from the candidates: with 7 or more unpracticed candidates exactly
   7 of them and no recently practiced one; with 1 to 6, all of them plus
   recently practiced candidates up to 7 in total; with none unpracticed,
   recently_practiced is cleared and up to 7 candidates are drawn. *)
C22_Original ==
    [][Phase2BuildStep => SelectionRule(Unpracticed = {})]_vars

(* C22, amended: the same rule, where the third case applies only when
   there are candidates; a deck of at most 8 cards has none, its set is the
   hardest cards alone and recently_practiced is left as it is. *)
C22_Selection ==
    [][Phase2BuildStep =>
          /\ SelectionRule(Unpracticed = {} /\ Candidates # {})
          /\ Candidates = {} =>
                /\ ToSet(session'.current_set) = DOMAIN cards
                /\ session'.recently_practiced = session.recently_practiced]_vars

(* a set of a deck of 16 cards holding 7 cards outside the 8 hardest: some
   unpracticed, topped up with recently practiced ones *)
C22_Witness ==
    /\ Len(cards) = 16 /\ pc = "dispatch" /\ session.phase = 2 /\ study.i = 1
    /\ LET chosen == ToSet(session.current_set) \ HardestCards(CurrentEase)
       IN /\ Cardinality(chosen) = 7
          /\ chosen \cap session.recently_practiced # {}
          /\ chosen \ session.recently_practiced # {}
          /\ Candidates \ chosen # {}

(* the step after the last card of a Phase 2 set, lines 416-422 *)
Phase2AfterSetStep == pc = "after_set" /\ session.phase = 2

(* C23: after each completed Phase 2 set every card of the set is added to
   recently_practiced, and if its size then exceeds 0.6 x the deck size it
   is replaced by a subset of itself of size floor(size / 2); so at the
   start of every Phase 2 set the size of recently_practiced is at most
   0.6 x the deck size. *)
C23_RecentlyPracticed ==
    [][/\ Phase2AfterSetStep =>
            LET added == session.recently_practiced \cup ToSet(session.current_set)
                size == Cardinality(added)
                kept == session'.recently_practiced
            IN IF 10 * size > 6 * Len(cards)
               THEN kept \subseteq added /\ Cardinality(kept) = size \div 2
               ELSE kept = added
       /\ (session' # None /\ session'.phase = 2 /\ pc' \in {"phase2", "continue"}) =>
            10 * Cardinality(session'.recently_practiced) <= 6 * Len(cards)]_vars

(* after the first set of a deck of 16 cards, 15 cards, the 15 cards then in
   recently_practiced have been cut down to 7 *)
C23_Witness ==
    /\ pc = "continue" /\ session.phase = 2
    /\ Len(cards) = 16 /\ Len(session.current_set) = 15
    /\ Len(session_stats) = 1
    /\ Cardinality(session.recently_practiced) = 7
    /\ session.recently_practiced \subseteq ToSet(session.current_set)

-----------------------------------------------------------------------------
(* Properties of the prompts (Spec) *)

(* the prompt of _mcq_practice_mode is waiting for input *)
AtMcqPrompt == pc = "prompt" /\ prompt.handler = "_mcq_practice_mode"

(* a step in which the first hint request of an MCQ prompt is served *)
McqHintStep ==
    AtMcqPrompt /\ pc' = "prompt" /\ ~prompt.used_hint /\ prompt'.used_hint

(* the option numbers on offer, and those of them that are wrong resp.
   correct answers of the card presented *)
OnOffer(p) == ToSet(p.available_options)
WrongOnOffer(p) ==
    {k \in OnOffer(p) :
        get_available_option_letters(cards[current_card])[k]
            \notin ToSet(cards[current_card].correct_answers)}
CorrectOnOffer(p) == OnOffer(p) \ WrongOnOffer(p)

(* C24 as stated: the first hint request of an MCQ prompt removes exactly
   ceil(w / 2) of the w wrong options on offer, at least 1 when w >= 1
   (2 of the 3 wrong options of a question with 4 options and one correct
   answer). *)
C24_HintRemovesCeilHalf ==
    [][McqHintStep =>
          LET w == Cardinality(WrongOnOffer(prompt))
          IN Cardinality(OnOffer(prompt) \ OnOffer(prompt')) = (w + 1) \div 2]_vars

(* the numbers of all correct answers of the card presented *)
CorrectNumbers ==
    {k \in DOMAIN get_available_option_letters(cards[current_card]) :
        get_available_option_letters(cards[current_card])[k]
            \in ToSet(cards[current_card].correct_answers)}

(* C25: the hint never removes a correct option: at an MCQ prompt every
   correct answer of the card stays on offer, the hint only removes wrong
   options, and for a card with 4 options and 1 correct answer exactly 1
   correct option and at least 1 wrong option are on offer after it. *)
C25_HintKeepsCorrect ==
    [][/\ (pc' = "prompt" /\ prompt'.handler = "_mcq_practice_mode") =>
            CorrectNumbers \subseteq OnOffer(prompt')
       /\ McqHintStep =>
            /\ OnOffer(prompt') \subseteq OnOffer(prompt)
            /\ OnOffer(prompt) \ OnOffer(prompt') \subseteq WrongOnOffer(prompt)
            /\ CorrectOnOffer(prompt') = CorrectNumbers
            /\ (Cardinality(cards[current_card].options) = 4
                  /\ Len(cards[current_card].correct_answers) = 1) =>
                  /\ Cardinality(CorrectOnOffer(prompt')) = 1
                  /\ Cardinality(WrongOnOffer(prompt')) >= 1]_vars

(* after the hint on a question with 4 options and 1 correct answer, the
   correct option and wrong options are on offer *)
C25_Witness ==
    /\ AtMcqPrompt /\ prompt.used_hint
    /\ Cardinality(cards[current_card].options) = 4
    /\ Len(cards[current_card].correct_answers) = 1
    /\ Cardinality(CorrectOnOffer(prompt)) = 1
    /\ WrongOnOffer(prompt) # {}
    /\ Cardinality(OnOffer(prompt)) < 4

(* a practice method with hints is waiting for input *)
AtHintPrompt ==
    /\ pc = "prompt"
    /\ prompt.handler \in {"_mcq_practice_mode", "_quiz_definition_to_term",
                           "_quiz_term_to_definition"}

(* C26: within one question a hint takes effect at most once: the options
   change only in the step that serves the first hint request, after it
   every input that leaves the prompt open changes nothing at all, and an
   answer given after it never has the outcome True: a correct answer, or
   a perfect selection of several answers, has the outcome hint_correct,
   which is reviewed with quality 3. *)
C26_HintOnce ==
    [][/\ (AtHintPrompt /\ pc' = "prompt" /\ prompt' # prompt) =>
            /\ ~prompt.used_hint /\ prompt'.used_hint
            /\ prompt'.handler = prompt.handler
       /\ (AtHintPrompt /\ prompt.used_hint /\ pc' = "prompt") => UNCHANGED vars
       /\ (AtHintPrompt /\ prompt.used_hint /\ pc' = "result"
              /\ study'.result # None /\ study'.result[1] # None) =>
            /\ study'.result[1] # True
            /\ (has_multiple_correct_answers(cards[current_card])
                  /\ prompt.handler = "_mcq_practice_mode"
                  /\ call'.ret.is_perfect) =>
                  study'.result[1] = hint_correct
       /\ (Answered /\ study.result[1] = hint_correct) =>
            call'.quality = 3 * QualityScale]_vars

(* a perfect selection of the two correct answers given after the hint has
   the outcome hint_correct *)
C26_Witness ==
    /\ pc = "result" /\ study.result # None
    /\ study.result[1] = hint_correct
    /\ call.op = "calculate_partial_score" /\ call.card = current_card
    /\ call.ret.is_perfect
    /\ Len(call.selected_answers) = 2

(* a step in which a line typed at the prompt of a question with several
   correct answers is scored; call' holds the line *)
ScoredLineStep ==
    /\ AtMcqPrompt /\ has_multiple_correct_answers(cards[current_card])
    /\ pc' = "result"
    /\ study'.result # None /\ study'.result[1] # None

(* the option numbers of the card presented that the hint has eliminated *)
Eliminated ==
    DOMAIN get_available_option_letters(cards[current_card]) \ OnOffer(prompt)

(* C27 as stated, for the selections of several answers: a line that holds
   an option number eliminated by the hint is rejected and never scored,
   also when it holds numbers still on offer. *)
C27_EliminatedRejected ==
    [][ScoredLineStep => ToSet(call'.user_input) \cap Eliminated = {}]_vars

(* C28 as stated, for an option number out of range: a line that holds a
   number above the number of options of the card is invalid input, so the
   question is asked again and nothing is scored; every line that is scored
   holds option numbers of the card only. *)
C28_OutOfRangeRejected ==
    [][ScoredLineStep =>
          ToSet(call'.user_input)
              \subseteq DOMAIN get_available_option_letters(cards[current_card])]_vars

-----------------------------------------------------------------------------
(* LearnSimulator.load_deck (SpecLoad) *)

MaxLoadRows == 2

(* the optional columns a deck file may have after the columns of the card
   content, in the order save_deck writes them *)
OptionalColumns == <<"ease", "repetitions", "last_review">>

Headers == {Take(OptionalColumns, n) : n \in 0..Len(OptionalColumns)}

(* what a field of a row may hold: nothing, a word, a decimal number, a
   whole number, an ISO date *)
Texts == {"", "abc", "1.3", "3", "2024-01-02T03:04:05"}

(* the files: whether the header has the MCQ columns, the optional columns
   of the header, and for each row the fields it has for them (a row may be
   shorter than the header) *)
DeckFiles ==
    UNION {[is_mcq : BOOLEAN, fieldnames : {h},
            rows : ListsUpTo(ListsUpTo(Texts, Len(h)), MaxLoadRows),
            saves : {0}] : h \in Headers}

(* a value or the exception raised in its place *)
Returns(x) == [raises |-> None, value |-> x]
Raises(e) == [raises |-> Some(e)]

(* row.get(key, default) on a row of csv.DictReader: the default when the
   header has no such column, None (restval) when the row is too short to
   have the field, the text of the field otherwise.  A default is written
   as its text: float(2.5) = float('2.5'), int(0) = int('0'). *)
get(fieldnames, row, key, default) ==
    IF \A k \in DOMAIN fieldnames : fieldnames[k] # key THEN Some(default)
    ELSE LET k == CHOOSE k \in DOMAIN fieldnames : fieldnames[k] = key
         IN  IF k > Len(row) THEN None ELSE Some(row[k])

(* float(x), scaled by EaseScale *)
float(x) ==
    IF x = None THEN Raises("TypeError")
    ELSE CASE x[1] = "2.5" -> Returns((25 * EaseScale) \div 10)
           [] x[1] = "1.3" -> Returns((13 * EaseScale) \div 10)
           [] x[1] = "3"   -> Returns(3 * EaseScale)
           [] OTHER        -> Raises("ValueError")

(* int(x): the text of a decimal number is not accepted *)
int(x) ==
    IF x = None THEN Raises("TypeError")
    ELSE CASE x[1] = "0" -> Returns(0)
           [] x[1] = "3" -> Returns(3)
           [] OTHER      -> Raises("ValueError")

(* Flashcard.__init__, line 32:
   datetime.fromisoformat(last_review) if last_review else None;
   the date read is written 0, a time before the session's clock *)
fromisoformat_or_none(last_review) ==
    IF last_review = None \/ last_review[1] = "" THEN Returns(None)
    ELSE IF last_review[1] = "2024-01-02T03:04:05" THEN Returns(Some(0))
    ELSE Raises("ValueError")

(* the body of the loop of load_deck for one row: the arguments are
   converted in the order written, then the constructor runs; the first
   exception ends the evaluation *)
load_row(is_mcq, fieldnames, row) ==
    LET ease == float(get(fieldnames, row, "ease", "2.5"))
        repetitions == int(get(fieldnames, row, "repetitions", "0"))
        last_review ==
            fromisoformat_or_none(
                IF \E k \in DOMAIN fieldnames : fieldnames[k] = "last_review"
                THEN get(fieldnames, row, "last_review", "")
                ELSE None)
    IN  IF ease.raises # None THEN ease
        ELSE IF repetitions.raises # None THEN repetitions
        ELSE IF last_review.raises # None THEN last_review
        ELSE Returns([(IF is_mcq
                       THEN Flashcard("mcq", {"a", "b", "c", "d"}, <<"a">>,
                                      ease.value, repetitions.value)
                       ELSE Flashcard("vocabulary", {}, <<>>,
                                      ease.value, repetitions.value))
                         EXCEPT !.last_review = last_review.value])

(* load_deck: every row is converted in turn; only FileNotFoundError is
   caught, so an exception of a row leaves load_deck and no simulator is
   constructed *)
LoadDeck ==
    /\ pc = "load"
    /\ LET loaded == [i \in DOMAIN file.rows |->
                         load_row(file.is_mcq, file.fieldnames, file.rows[i])]
           failed == {i \in DOMAIN loaded : loaded[i].raises # None}
       IN IF failed = {}
          THEN /\ cards' = [i \in DOMAIN loaded |-> loaded[i].value]
               /\ call' = [op |-> "load_deck", raises |-> None]
               /\ pc' = "start"
          ELSE /\ call' = [op |-> "load_deck",
                           raises |-> loaded[CHOOSE i \in failed :
                                                \A j \in failed : i <= j].raises]
               /\ pc' = "raised"
               /\ UNCHANGED cards
    /\ UNCHANGED <<clock, session, study, prompt, session_stats,
                   previous_stage_distribution, file>>

InitLoad ==
    /\ cards = <<>>
    /\ clock = 1
    /\ call = NoCall
    /\ pc = "load"
    /\ session = None
    /\ study = None
    /\ prompt = NoPrompt
    /\ session_stats = <<>>
    /\ previous_stage_distribution = None
    /\ file \in DeckFiles

NextLoad == LoadDeck

SpecLoad == InitLoad /\ [][NextLoad]_vars

(* Properties of load_deck (SpecLoad) *)

(* the field of a row under a column, None if the header has no such
   column or the row is too short for it *)
FieldOf(row, key) ==
    IF \E k \in 1..Len(row) : file.fieldnames[k] = key
    THEN Some(row[CHOOSE k \in 1..Len(row) : file.fieldnames[k] = key])
    ELSE None

EaseTexts == {"1.3", "3"}
RepetitionsTexts == {"3"}
DateTexts == {"2024-01-02T03:04:05"}

(* C29 as stated: loading never fails; every row gives a card, and a field
   that is missing, empty, not numeric or not a date gives the card the
   default of that field (ease 2.5, repetitions 0, no last review). *)
C29_LoadSubstitutesDefaults ==
    pc # "load" =>
        /\ pc = "start"
        /\ Len(cards) = Len(file.rows)
        /\ \A i \in DOMAIN cards :
              LET row == file.rows[i]
                  ease == FieldOf(row, "ease")
                  repetitions == FieldOf(row, "repetitions")
                  last_review == FieldOf(row, "last_review")
              IN  /\ (ease = None \/ ease[1] \notin EaseTexts)
                         => cards[i].ease = DefaultEase
                  /\ (repetitions = None \/ repetitions[1] \notin RepetitionsTexts)
                         => cards[i].repetitions = 0
                  /\ (last_review = None \/ last_review[1] \notin DateTexts)
                         => cards[i].last_review = None

(* Properties of the statistics of a set (SpecPhase1) *)

(* the statistics record of the set completed last *)
LastStats == session_stats[Len(session_stats)]

(* a step that completes a set: its statistics record is stored *)
StatsStep == Len(session_stats') = Len(session_stats) + 1

(* C30: the statistics record stored when a set is completed holds a stage
   distribution of five buckets over the whole deck as it is at that moment:
   bucket s is the number of cards of the deck in stage s, and the five
   buckets add up to the size of the deck. *)
C30_StageHistogram ==
    [][StatsStep =>
          LET stats == session_stats'[Len(session_stats')]
          IN  /\ DOMAIN stats.stage_counts = 1..5
              /\ \A s \in 1..5 :
                    stats.stage_counts[s]
                        = Cardinality({i \in DOMAIN cards' : stage(cards'[i]) = s})
              /\ stats.stage_counts[1] + stats.stage_counts[2]
                     + stats.stage_counts[3] + stats.stage_counts[4]
                     + stats.stage_counts[5] = Len(cards')]_vars

(* a set that leaves out a card of the deck has been completed, and the
   distribution counts that card too: the deck is in two different stages *)
C30_Witness ==
    /\ pc = "after_set"
    /\ ToSet(session.current_set) # DOMAIN cards
    /\ Cardinality({s \in 1..5 : LastStats.stage_counts[s] > 0}) = 2

(* Properties of the presentations (Spec) *)

(* a step that presents the next card of the set *)
PresentStep == pc = "dispatch" /\ pc' = "prompt"

(* C31: at every presentation the stage is computed from the repetitions
   and ease the card has at that moment, and the mode follows that stage:
   review mode exactly for a card with no repetitions or ease below 2.0.
   So in the second pass of a Phase 1 set the mode depends on the card as
   the first pass left it. *)
C31_StageRecomputed ==
    [][PresentStep =>
          LET card == cards[current_card]
          IN  /\ study'.current_stage = Some(stage(card))
              /\ (prompt'.handler = "_show_card_review_mode")
                     <=> (card.repetitions = 0 \/ card.ease < 2 * EaseScale)]_vars

(* the second pass of a Phase 1 set of one card: the card was shown in
   review mode in the first pass and is now quizzed *)
C31_Witness ==
    /\ pc = "prompt"
    /\ session.phase = 1
    /\ Len(session.new_cards) = 1
    /\ study.i = 2
    /\ call.op = "review" /\ call.card = current_card /\ stage(call.old) = 1
    /\ study.current_stage # None /\ study.current_stage[1] > 1
    /\ prompt.handler # "_show_card_review_mode"

(* a step that handles the acknowledgement of a card shown in review mode *)
AcknowledgedStep ==
    /\ Answered
    /\ study.current_stage = Some(1)

(* C32: a card presented at stage 1 and acknowledged is reviewed with
   quality 5 and counted as a correct answer; it is not added to the
   incorrect cards of the set, and only incorrect cards are carried
   forward. *)
C32_AcknowledgeIsCorrect ==
    [][/\ AcknowledgedStep =>
            /\ call'.op = "review" /\ call'.card = current_card
            /\ call'.quality = 5 * QualityScale
            /\ cards'[current_card] # cards[current_card]
            /\ study'.correct_count = study.correct_count + 1
            /\ study'.incorrect_count = study.incorrect_count
            /\ study'.hint_count = study.hint_count
            /\ study'.incorrect_cards = study.incorrect_cards
       /\ AfterSetStep =>
            \A k \in (Len(session.carry_forward_cards) + 1)
                        ..Len(session'.carry_forward_cards) :
               session'.carry_forward_cards[k] \in ToSet(study.incorrect_cards)]_vars

(* a set of two presentations, both acknowledged in review mode, has been
   completed with two correct answers and nothing to carry forward *)
C32_Witness ==
    /\ pc = "after_set"
    /\ session.phase = 1
    /\ call.op = "review" /\ stage(call.old) = 1 /\ call.quality = 5 * QualityScale
    /\ study.correct_count = 2 /\ study.incorrect_cards = <<>>
    /\ Len(session.current_set) = 2

(* an MCQ card is being presented at stage 4 or 5, or its outcome is being
   handled *)
AdvancedMcq ==
    /\ pc \in {"prompt", "result"}
    /\ cards[current_card].card_type = "mcq"
    /\ study.current_stage \in {Some(4), Some(5)}

(* C33: while an MCQ card is presented at stage 4 or 5 hints are disabled,
   so no hint has been used and every option of the card stays on offer
   whatever is typed, and the outcome is never hint_correct. *)
C33_NoHintsAdvanced ==
    AdvancedMcq =>
        /\ pc = "prompt" =>
              /\ ~prompt.allow_hints
              /\ ~prompt.used_hint
              /\ ToSet(prompt.available_options)
                     = DOMAIN get_available_option_letters(cards[current_card])
        /\ (pc = "result" /\ study.result # None) => study.result[1] # hint_correct

(* an MCQ card presented at stage 4 has been answered correctly *)
C33_Witness ==
    /\ AdvancedMcq
    /\ pc = "result"
    /\ study.result # None /\ study.result[1] = True

(* Properties of the response time (SpecTime) *)

(* the latest call was a review answered in at most 3 seconds *)
FastReview ==
    /\ call.op = "review"
    /\ call.response_time # None
    /\ ValueOf(call.response_time) <= 3

(* C34 as stated: the ease a card has after a review answered in at most 3
   seconds is at least the ease the same review of the same card gives when
   answered in more than 20 seconds, for every quality. *)
C34_FasterNeverWorse ==
    FastReview =>
        \A slow \in 21..MaxTime :
            cards[call.card].ease
                >= review(call.old, call.quality, Some(slow), clock).ease

-----------------------------------------------------------------------------
(* SpecPhase1Live: Phase 1 with every answer and response time, never
   cancelled, on decks of one card and of two vocabulary cards; the learner
   answers every prompt in the end *)

MaxLiveReviews == 20

(* (ease in tenths, repetitions): new, at the floor, at stage 2, at 6.0 *)
LiveStates == {<<25, 0>>, <<13, 3>>, <<20, 1>>, <<60, 3>>}

LiveVocabularyCards ==
    {Flashcard("vocabulary", {}, <<>>, (s[1] * EaseScale) \div 10, s[2]) :
        s \in LiveStates}

(* MCQ with two correct answers of four and with one of four *)
LiveMcqCards ==
    {Flashcard("mcq", {"a", "b", "c", "d"}, c, (s[1] * EaseScale) \div 10, s[2]) :
        c \in {<<"a", "c">>, <<"b">>}, s \in {<<25, 0>>, <<60, 0>>}}

LiveDecks ==
    {deck \in {<<c>> : c \in LiveVocabularyCards \cup LiveMcqCards}
                 \cup [1..2 -> LiveVocabularyCards] :
        any_stage_one(deck)}

InitPhase1Live ==
    /\ cards \in LiveDecks
    /\ clock = 1
    /\ call = NoCall
    /\ pc = "start"
    /\ session = None
    /\ study = None
    /\ prompt = NoPrompt
    /\ session_stats = <<>>
    /\ previous_stage_distribution = None
    /\ file = [rows |-> [i \in DOMAIN cards |-> to_dict(cards[i])], saves |-> 0]

NextPhase1Live ==
    \/ StartSession
    \/ Phase1BuildSet
    \/ DispatchWithin(MaxLiveReviews)
    \/ \E response_time \in SessionTimes : ReviewModeSpace(response_time)
    \/ \E choice \in 1..5, response_time \in SessionTimes :
          QuizChoice(choice, response_time)
    \/ QuizHint
    \/ \E similarity \in Similarities, response_time \in SessionTimes :
          TypedAnswer(similarity, response_time)
    \/ McqHint
    \/ \E choice_num \in 1..4, response_time \in SessionTimes :
          McqKey(choice_num, response_time)
    \/ \E user_input \in ListsUpTo(1..Len(Letters), MaxSelectedLen),
          response_time \in SessionTimes :
          McqLine(user_input, response_time)
    \/ HandleResult
    \/ Phase1AfterSet

(* the steps the program takes by itself *)
Phase1Program ==
    \/ StartSession
    \/ Phase1BuildSet
    \/ DispatchWithin(MaxLiveReviews)
    \/ HandleResult
    \/ Phase1AfterSet

(* the program goes on while it can, and the learner, who never cancels,
   answers every prompt in the end: no practice method waits for ever *)
SpecPhase1Live ==
    /\ InitPhase1Live /\ [][NextPhase1Live]_vars
    /\ WF_vars(Phase1Program)
    /\ []<>(pc # "prompt")

(* Properties of the end of Phase 1 (SpecPhase1Live) *)

(* a step that handles an answer counted as incorrect *)
IncorrectStep ==
    /\ Answered
    /\ study'.incorrect_count = study.incorrect_count + 1

(* C35: when the learner never cancels, Phase 1 ends whatever the answers
   and response times are: study_session returns after finitely many
   sets.  No card can be carried forward for ever, because an answer
   counted as incorrect lowers the ease of the card unless the ease is at
   its floor, where the card is shown in review mode. *)
C35_Phase1Terminates ==
    /\ <>(pc = "returned")
    /\ [][IncorrectStep =>
             \/ cards'[current_card].ease < cards[current_card].ease
             \/ cards'[current_card].ease = MinEase]_vars

(* Phase 1 has ended after a set with an incorrect answer, whose card was
   carried forward, and two more sets *)
C35_Witness ==
    /\ pc = "returned"
    /\ session.phase = 1
    /\ session.carry_forward_cards = <<>>
    /\ Len(session_stats) >= 3
    /\ session_stats[1].incorrect_count > 0
    /\ session_stats[2].incorrect_count > 0

-----------------------------------------------------------------------------
(* Properties of the carried cards (SpecPhase1) *)

(* no entry of list occurs twice *)
NoCardTwice(list) == \A i, j \in DOMAIN list : i # j => list[i] # list[j]

(* C36: in Phase 1 carry_forward_cards holds at most 7 cards and no card
   twice, so building a set takes all of it: it is empty while a set is
   studied; and the cards of a set, as listed for its first pass, hold no
   card twice. *)
C36_CarryAtMostSeven ==
    (session # None /\ session.phase = 1) =>
        /\ Len(session.carry_forward_cards) <= 7
        /\ NoCardTwice(session.carry_forward_cards)
        /\ NoCardTwice(session.new_cards)
        /\ Len(session.new_cards) <= 7
        /\ InPhase1Set => session.carry_forward_cards = <<>>

(* the second set of a deck of at least twelve cards is being studied: its
   seven cards are the three carried from the first set and four not seen
   before *)
C36_Witness ==
    /\ InPhase1Set
    /\ pc = "dispatch"
    /\ Len(session_stats) = 1
    /\ session_stats[1].incorrect_count >= 3
    /\ Len(session.new_cards) = 7
    /\ session.current_set_start = 11

-----------------------------------------------------------------------------
(* Properties of the counting of answers (Spec) *)

(* C37: for every presentation that is answered, the card is added to the
   incorrect cards of the set and counted in incorrect_count exactly when
   the quality passed to review is below 3, which is exactly when review
   halves the repetitions; otherwise it is counted in correct_count.  A
   partial score p is counted correct exactly when p >= 0.5. *)
C37_IncorrectIffLowQuality ==
    [][Answered =>
          LET low == call'.quality < 3 * QualityScale
              outcome == study.result[1]
          IN  /\ call'.op = "review" /\ call'.card = current_card
              /\ study'.incorrect_count
                     = study.incorrect_count + (IF low THEN 1 ELSE 0)
              /\ study'.correct_count
                     = study.correct_count + (IF low THEN 0 ELSE 1)
              /\ study'.incorrect_cards
                     = IF low THEN Append(study.incorrect_cards, current_card)
                       ELSE study.incorrect_cards
              /\ cards'[current_card].repetitions
                     = IF low THEN cards[current_card].repetitions \div 2
                       ELSE cards[current_card].repetitions + 1
              /\ Len(outcome) = 2 =>
                     (low <=> 2 * outcome[2] < ScoreScale)]_vars

(* a partial score of exactly 0.5, without hint, has been counted correct
   and reviewed with quality 3 *)
C37_Witness ==
    /\ pc \in {"dispatch", "after_set"}
    /\ call.op = "review" /\ call.quality = 3 * QualityScale
    /\ study.hint_count = 0
    /\ study.correct_count = 1 /\ study.incorrect_cards = <<>>
    /\ cards[call.card].repetitions = call.old.repetitions + 1

-----------------------------------------------------------------------------
(* Properties of the stage after a review (SpecTime) *)

(* C38: for a card with ease of at least 1.3 and any response time, a
   review with quality 5 leaves the card in its stage or a higher one, and
   a review with quality 1 leaves it in its stage or a lower one. *)
C38_StageMonotone ==
    (call.op = "review" /\ call.old.ease >= MinEase) =>
        /\ call.quality = 5 * QualityScale
              => stage(cards[call.card]) >= stage(call.old)
        /\ call.quality = QualityScale
              => stage(cards[call.card]) <= stage(call.old)

(* a card of stage 3 answered slowly with quality 1 is in stage 1 *)
C38_Witness ==
    /\ call.op = "review"
    /\ call.quality = QualityScale
    /\ call.response_time # None /\ ValueOf(call.response_time) > 20
    /\ stage(call.old) = 3
    /\ stage(cards[call.card]) = 1

(* Properties of the size of the Phase 2 sets (SpecPhase2) *)

(* a step that ends the session in Phase 2 *)
Phase2EndStep ==
    /\ pc \notin {"start", "returned", "crashed"}
    /\ session.phase = 2
    /\ pc' \in {"returned", "crashed"}

(* C39: for a deck of N >= 1 cards every Phase 2 set is non-empty, holds no
   card twice and has exactly min(N, 8) + min(7, max(0, N - 8)) cards, at
   most 15; the loop never leaves through the exit for an empty set, and
   Phase 2 ends only when the learner declines another set or presses
   ESC. *)
C39_Phase2SetSize ==
    [][/\ pc = "phase2" => Phase2BuildStep
       /\ Phase2BuildStep =>
             LET N == Len(cards)
                 set == session'.current_set
             IN /\ N >= 1
                /\ set # <<>>
                /\ NoCardTwice(set)
                /\ Len(set) = Min(N, 8) + Min(7, Max(0, N - 8))
                /\ Len(set) <= 15
       /\ Phase2EndStep => pc = "continue" \/ Cancelled \/ EscapeStep]_vars

(* the learner declines another set after a set of 15 different cards of a
   deck of 16 *)
C39_Witness ==
    /\ pc = "returned"
    /\ session.phase = 2
    /\ session_stats # <<>>
    /\ NoCardTwice(session.current_set)
    /\ Len(cards) = 16
    /\ Len(session.current_set) = 15

(* Properties of saving and loading again (Spec) *)

(* load_deck on the rows save_deck wrote: one card per row, ease (kept in
   thousandths, as written) and repetitions read from the row, interval 1 *)
load_saved(rows) ==
    [i \in DOMAIN rows |->
        [ease |-> rows[i].ease, repetitions |-> rows[i].repetitions, interval |-> 1]]

(* C40 as stated: save_deck succeeds on every non-empty deck, vocabulary or
   MCQ, and loading what it saved yields the same cards in the same order,
   each with the same repetitions, its ease rounded to 3 decimals and
   interval 1. *)
C40_SaveThenLoad ==
    (file.saves >= 1 /\ cards # <<>>) =>
        /\ pc # "crashed"
        /\ load_saved(file.rows) =
               [i \in DOMAIN cards |->
                   [ease |-> Round3(cards[i].ease),
                    repetitions |-> cards[i].repetitions,
                    interval |-> 1]]

=============================================================================
